---- MODULE Spec2Model ----
(***************************************************************************)
(* Yomi-Proxy: the credential pool (services/keyManager.js), its reloads   *)
(* (services/customProviderManager.js), the request orchestrator           *)
(* (controllers/proxyController.js) and the per-caller rate limiter        *)
(* (services/tokenManager.js), as state machines.                          *)
(*                                                                         *)
(* Node.js runs one handler at a time: a synchronous stretch of code       *)
(* between two awaits is one atomic action here, and every await is a      *)
(* point where the other handlers may run.                                 *)
(***************************************************************************)
EXTENDS Integers, Sequences, FiniteSets, Bags, TLC

\* ------------------------------------------------------------------ bounds
MaxInflight == 2        \* proxy requests that may be awaiting upstream at once
ReloadBudget == 1       \* admin save/remove calls started in one run (SpecReload)
OverlapBudget == 2      \* admin save calls started in one run (SpecOverlap)
RequestBudget == 1      \* proxy requests started in one run (SpecReload)
RotationBudget == 5     \* proxy requests started in one run (SpecRotation)
MaxTicks == 4           \* advances of the wall clock in one run (SpecToken)
TokenAdminBudget == 2   \* admin token calls started in one run (SpecTokenAdmin)
MaxMessages == 3      \* messages in the list given to the Claude conversion (SpecClaude)
MaxEvents == 3        \* events the upstream sends in one stream (SpecStream)
MaxChunks == 3        \* chunks fed to one ThinkTagStreamProcessor (SpecThink)

\* --------------------------------------------------------- program constants
RATE_LIMIT_THRESHOLD == 20
RATE_WINDOW_MS == 60000

Builtin == "openai"      \* a provider configured through OPENAI_KEY
Custom == "custom1"      \* the provider_id of the one custom_providers row
ProviderIds == {Builtin, Custom}
PoolEnvKeys == <<"k1", "k2">>
RotationEnvKeys == <<"k1", "k2", "k3">>
ReloadEnvKeys == <<"k1">>
CustomKeyLists == {<<"c1">>, <<"c1", "c2">>}
\* HTTP status of an upstream answer; 0: no response at all (timeout, network
\* error); -1: buildFinalMessages threw UserInputError before any upstream call.
UpstreamOutcomes == {200, 401, 402, 403, 429, 500, 0, -1}
TestOutcomes == {200, 401, 402, 403, 500, 0}
\* the answers drawn where the number of requests is not bounded (SpecPool)
PoolUpstreamOutcomes == {200, 401, 402, 429, 0}
\* the answers drawn while reloads run beside the requests (SpecReload)
ReloadUpstreamOutcomes == {200, 401, 429}
ReloadTestOutcomes == {200, 401}

VARIABLES
    env,          \* process.env OPENAI_KEY, split: the built-in provider's key values
    db,           \* table custom_providers: provider_id -> [is_enabled, api_keys]
    providers,    \* keyManager state.providers
    tests,        \* health checks awaiting their axios.post: [owner, p, i]
    boot,         \* position of startServer
    admin,        \* the admin save/remove calls started so far, each with its position
    reqs,         \* proxy requests awaiting upstream: a bag of <<provider, key value>>
    last,         \* the handler step that produced this state, with its result
    ghost,        \* per credential object: calls observed (history, not program state)
    reqBudget,    \* proxy requests that may still start (SpecReload, SpecRotation)
    reloadBudget, \* admin save/remove calls that may be started in one run
    observe,      \* whether ghost records lastCall and the picks of getRotatingKey
    clock,        \* Date.now(), in ms since the run began
    ticks,        \* advances of the clock so far
    userTokens,   \* table user_tokens: token -> [rpm, is_enabled, expires_at]
    tokens,       \* tokenManager state.tokens
    requests,     \* tokenManager state.requests: token -> admitted timestamps kept
    tokenBoot,    \* position of tokenManager.initialize
    admitted,     \* per token, the times of all its admissions (history)
    atLoad,       \* per token, what initialize found: valid, expired or disabled (history)
    tokenOp,      \* the saveToken/deleteToken call in progress, with its position
    tokenOpsDone, \* saveToken/deleteToken calls started so far
    blocks,       \* table global_prompt_blocks: provider -> its rows by position
    commands,     \* table commands, in row order
    calls,        \* per request id: the proxyRequest/buildFinalMessages call's position
    requestVariables,  \* per call, its requestVariables map
    openaiRequest,     \* the messages handleClaudeRequest is given
    claudeRequest,     \* the body handleClaudeRequest posts upstream
    upstream,          \* the upstream event stream of a streaming Claude request
    response,          \* what the stream handlers have written to the caller
    downstream,        \* the caller's side of a streamed response: the handler that
                       \* serves it, whether the caller has gone, whether the pipe holds
    processor          \* a ThinkTagStreamProcessor: buffer and isInsideThinkBlock, with
                       \* the chunks it was fed and the outputs it returned, each joined

poolVars == <<env, db, providers, tests, boot, admin, reqs, ghost, reqBudget, reloadBudget,
             observe>>
tokenAdminVars == <<tokenOp, tokenOpsDone>>
tokenVars == <<clock, ticks, userTokens, tokens, requests, tokenBoot, admitted, atLoad,
               tokenAdminVars>>
promptVars == <<blocks, commands, calls, requestVariables>>
claudeVars == <<openaiRequest, claudeRequest, upstream, response, downstream, processor>>
vars == <<poolVars, last, tokenVars, promptVars, claudeVars>>

EmptyMap == [x \in {} |-> 0]
Min(S) == CHOOSE x \in S : \A y \in S : x <= y

\* ------------------------------------------------------------ keyManager.js
NewKey(v) == [value |-> v, status |-> "unchecked", consecutiveFails |-> 0]

NewProviderEntry(keyValues, isCustom) ==
    [keys |-> [i \in 1..Len(keyValues) |-> NewKey(keyValues[i])],
     currentIndex |-> 0,
     isCustom |-> isCustom]

\* initialize, step 1: state.providers = {} and the built-in providers, all in
\* one synchronous stretch up to the await of the custom_providers query.
LoadBuiltins(e) ==
    IF Len(e) > 0 THEN (Builtin :> NewProviderEntry(e, FALSE)) ELSE EmptyMap

\* WHERE is_enabled = true
EnabledRows(d) == {p \in DOMAIN d : d[p].is_enabled}

\* initialize, step 2: one entry per enabled row with at least one key; an
\* entry of the same name is replaced by fresh key objects.
LoadCustoms(provs, d) ==
    LET loaded == {p \in EnabledRows(d) : Len(d[p].api_keys) > 0}
    IN [p \in (DOMAIN provs) \cup loaded |->
            IF p \in loaded THEN NewProviderEntry(d[p].api_keys, TRUE) ELSE provs[p]]

\* fault variant of IsSelectable: everything but a revoked key is returned
IsSelectableNotRevoked(key) == key.status # "revoked"

IsSelectable(key) == key.status = "active"

\* fault variant of NextCursor: the cursor stays on the returned key
\* fault variant of NextCursor: the cursor moves on without wrapping
NextCursorNoWrap(keyIndex, totalKeys) == keyIndex + 1

NextCursorStuck(keyIndex, totalKeys) == keyIndex % totalKeys

NextCursor(keyIndex, totalKeys) == (keyIndex + 1) % totalKeys

\* the for-loop of getRotatingKey from iteration i on: the 0-based index of
\* the key returned, -1 for null
RECURSIVE ScanFrom(_, _)
ScanFrom(pd, i) ==
    LET totalKeys == Len(pd.keys)
        keyIndex == (pd.currentIndex + i) % totalKeys
    IN IF i >= totalKeys THEN -1
       ELSE IF IsSelectable(pd.keys[keyIndex + 1]) THEN keyIndex
       ELSE ScanFrom(pd, i + 1)

GetRotatingKey(provs, p) ==
    IF p \notin DOMAIN provs \/ Len(provs[p].keys) = 0 THEN -1
    ELSE ScanFrom(provs[p], 0)

\* the state after getRotatingKey returned the key at keyIndex
AdvanceCursor(provs, p, keyIndex) ==
    [provs EXCEPT ![p].currentIndex = NextCursor(keyIndex, Len(provs[p].keys))]

\* state.providers[provider]?.keys.find(k => k.value === keyValue):
\* the 1-based position of the first key with that value, 0 for undefined
FindKey(provs, p, v) ==
    IF p \notin DOMAIN provs THEN 0
    ELSE LET hits == {i \in 1..Len(provs[p].keys) : provs[p].keys[i].value = v}
         IN IF hits = {} THEN 0 ELSE Min(hits)

\* fault variant: deactivateKey without the test of the current status
DeactivateKeyAnyStatus(provs, p, v, reason) ==
    LET i == FindKey(provs, p, v)
    IN IF i # 0 THEN [provs EXCEPT ![p].keys[i].status = reason] ELSE provs

DeactivateKey(provs, p, v, reason) ==
    LET i == FindKey(provs, p, v)
    IN IF i # 0 /\ provs[p].keys[i].status = "active"
       THEN [provs EXCEPT ![p].keys[i].status = reason]
       ELSE provs

\* fault variant of RecordSuccess: the counter is left as it is
RecordSuccessNoReset(provs, p, v) == provs

RecordSuccess(provs, p, v) ==
    LET i == FindKey(provs, p, v)
    IN IF i # 0 THEN [provs EXCEPT ![p].keys[i].consecutiveFails = 0] ELSE provs

\* fault variant of ThresholdReached: > where the code has >=
ThresholdReachedLate(fails) == fails > RATE_LIMIT_THRESHOLD

ThresholdReached(fails) == fails >= RATE_LIMIT_THRESHOLD

\* fault variant: recordFailure counts on a credential of any status
RecordFailureAnyStatus(provs, p, v) ==
    LET i == FindKey(provs, p, v)
    IN IF i # 0
       THEN LET counted == [provs EXCEPT ![p].keys[i].consecutiveFails = @ + 1]
            IN IF ThresholdReached(counted[p].keys[i].consecutiveFails)
               THEN DeactivateKey(counted, p, v, "revoked")
               ELSE counted
       ELSE provs

RecordFailure(provs, p, v) ==
    LET i == FindKey(provs, p, v)
    IN IF i # 0 /\ provs[p].keys[i].status = "active"
       THEN LET counted == [provs EXCEPT ![p].keys[i].consecutiveFails = @ + 1]
            IN IF ThresholdReached(counted[p].keys[i].consecutiveFails)
               THEN DeactivateKey(counted, p, v, "revoked")
               ELSE counted
       ELSE provs

\* testKey / testCustomKey / testClaudeKey: the status a finished check writes
\* fault variant of the catch blocks of the tests: a failure without a known
\* status leaves the key as it was created
TestVerdictUnknownKept(outcome) ==
    IF outcome = 200 THEN "active"
    ELSE IF outcome = 401 \/ outcome = 403 THEN "revoked"
    ELSE IF outcome = 402 THEN "over_quota"
    ELSE "unchecked"

TestVerdict(outcome) ==
    IF outcome = 200 THEN "active"
    ELSE IF outcome = 401 \/ outcome = 403 THEN "revoked"
    ELSE IF outcome = 402 THEN "over_quota"
    ELSE "revoked"

\* checkAllKeys: one check per key of the map as it is when checkAllKeys runs
StartedTests(provs, owner) ==
    UNION {{[owner |-> owner, p |-> p, i |-> i] :
                i \in 1..Len(provs[p].keys)} : p \in DOMAIN provs}

\* ------------------------------------------------------ proxyController.js
\* fault variant of HandleProxyError: 403 is not taken for a bad credential
HandleProxyErrorNo403(provs, p, v, outcome) ==
    IF outcome = -1 THEN provs
    ELSE IF outcome = 402 THEN DeactivateKey(provs, p, v, "over_quota")
    ELSE IF outcome = 429 THEN RecordFailure(provs, p, v)
    ELSE IF outcome = 401 THEN DeactivateKey(provs, p, v, "revoked")
    ELSE provs

\* fault variant of HandleProxyError: a UserInputError is counted as a failure
\* of the key the request holds
HandleProxyErrorCountsCaller(provs, p, v, outcome) ==
    IF outcome = -1 THEN RecordFailure(provs, p, v)
    ELSE IF outcome = 402 THEN DeactivateKey(provs, p, v, "over_quota")
    ELSE IF outcome = 429 THEN RecordFailure(provs, p, v)
    ELSE IF outcome = 401 \/ outcome = 403 THEN DeactivateKey(provs, p, v, "revoked")
    ELSE provs

\* handleProxyError's calls into the pool
HandleProxyError(provs, p, v, outcome) ==
    IF outcome = -1 THEN provs
    ELSE IF outcome = 402 THEN DeactivateKey(provs, p, v, "over_quota")
    ELSE IF outcome = 429 THEN RecordFailure(provs, p, v)
    ELSE IF outcome = 401 \/ outcome = 403 THEN DeactivateKey(provs, p, v, "revoked")
    ELSE provs

\* the status handleProxyError answers with
ErrorResponse(outcome) ==
    IF outcome = -1 THEN 400 ELSE IF outcome = 0 THEN 500 ELSE outcome

\* ------------------------------------------------- history of observed calls
\* Per credential object, streak: the recordFailure calls it received while
\* active since its last recordSuccess; lastCall: "success" when the last
\* recordSuccess/recordFailure call that named it was a recordSuccess, "fas"
\* when it was a recordFailure that directly followed a recordSuccess.
\* Per provider, picks: the 0-based indexes the latest getRotatingKey calls
\* returned since a status of the provider last changed, at most one per key.
\* lastCall and picks are kept when observe is set.
FreshGhost(pd) ==
    [calls |-> [i \in 1..Len(pd.keys) |-> [streak |-> 0, lastCall |-> "none"]],
     picks |-> <<>>,
     deactivated |-> {}]

GhostOf(provs) == [p \in DOMAIN provs |-> FreshGhost(provs[p])]

GhostAfterLoad(provs, old, d) ==
    [p \in DOMAIN provs |->
        IF p \in DOMAIN old /\ ~(p \in EnabledRows(d) /\ Len(d[p].api_keys) > 0)
        THEN [old[p] EXCEPT !.deactivated = {}] ELSE FreshGhost(provs[p])]

Statuses(pd) == [i \in 1..Len(pd.keys) |-> pd.keys[i].status]

\* picks are forgotten when a status of the provider changed in the step
PicksKept(g, before, after) ==
    [p \in DOMAIN g |->
        IF Statuses(before[p]) = Statuses(after[p]) THEN g[p] ELSE [g[p] EXCEPT !.picks = <<>>]]

GhostAfterCall(g, provs, p, v, outcome, on) ==
    LET i == FindKey(provs, p, v)
    IN IF i = 0 THEN g
       ELSE IF outcome = 200
       THEN [g EXCEPT ![p].calls[i] =
                [streak |-> 0, lastCall |-> IF on THEN "success" ELSE "none"]]
       ELSE IF outcome = 429
       THEN [g EXCEPT ![p].calls[i] =
                [streak |-> IF provs[p].keys[i].status = "active" THEN @.streak + 1 ELSE @.streak,
                 lastCall |-> IF @.lastCall = "success" THEN "fas" ELSE "none"]]
       ELSE g

GhostAfterPick(g, provs, p, keyIndex, on) ==
    IF ~on THEN g
    ELSE [g EXCEPT ![p].picks =
            IF Len(@) < Len(provs[p].keys) THEN Append(@, keyIndex)
            ELSE Append(Tail(@), keyIndex)]

\* the key objects the request path has taken out of the active state are
\* remembered (history) while picks are observed, until initialize has
\* loaded the pool again
MarkDeactivated(g, before, after, on) ==
    [p \in DOMAIN g |->
        IF ~on THEN g[p]
        ELSE [g[p] EXCEPT !.deactivated =
                @ \cup {i \in 1..Len(before[p].keys) :
                           /\ before[p].keys[i].status = "active"
                           /\ after[p].keys[i].status # "active"}]]

\* the status of the credential a request used, "absent" when a reload removed it
StatusOf(provs, p, v) ==
    LET i == FindKey(provs, p, v)
    IN IF i = 0 THEN "absent" ELSE provs[p].keys[i].status

FailsOf(provs, p, v) ==
    LET i == FindKey(provs, p, v)
    IN IF i = 0 THEN -1 ELSE provs[p].keys[i].consecutiveFails

\* --------------------------------------------------------------- step labels
Label(op, p, key, outcome, code) ==
    [op |-> op, p |-> p, key |-> key, outcome |-> outcome, code |-> code]

NoLabel == Label("none", "", "", 0, 0)

\* old: the providers of the map when the call's initialize cleared it (history)
IdleAdmin == [pc |-> "idle", kind |-> "", critical |-> FALSE,
              form |-> [is_enabled |-> FALSE, api_keys |-> <<>>], old |-> {}]
Forms == [is_enabled : BOOLEAN, api_keys : CustomKeyLists]
InitialRow == [is_enabled |-> TRUE, api_keys |-> <<"c1">>]

\* ------------------------------------------------------------------ startup
\* server.js startServer: await keyManager.initialize()
BootInitialize ==
    /\ UNCHANGED <<tokenVars, promptVars, claudeVars>>
    /\ boot = "start"
    /\ providers' = LoadBuiltins(env)
    /\ ghost' = GhostOf(providers')
    /\ boot' = "query"
    /\ last' = Label("initialize", "", "", 0, 0)
    /\ UNCHANGED <<env, reloadBudget, db, tests, admin, reqs, reqBudget, observe>>

\* the custom_providers query answers; initialize returns and checkAllKeys
\* starts one check per key
BootQueryDone ==
    /\ UNCHANGED <<tokenVars, promptVars, claudeVars>>
    /\ boot = "query"
    /\ providers' = LoadCustoms(providers, db)
    /\ ghost' = GhostAfterLoad(providers', ghost, db)
    /\ tests' = StartedTests(providers', 0)
    /\ boot' = IF tests' = {} THEN "listening" ELSE "checking"
    /\ last' = Label("checkAllKeys", "", "", 0, 0)
    /\ UNCHANGED <<env, reloadBudget, db, admin, reqs, reqBudget, observe>>

\* the query fails: initialize rethrows and startServer never listens
BootQueryFail ==
    /\ UNCHANGED <<tokenVars, promptVars, claudeVars>>
    /\ boot = "query"
    /\ boot' = "crashed"
    /\ last' = Label("initializeFailed", "", "", 0, 0)
    /\ UNCHANGED <<env, reloadBudget, db, providers, tests, admin, reqs, ghost, reqBudget, observe>>

\* checkAllKeys' Promise.all resolves in the turn in which the last of its
\* checks settles, and the caller (startServer, save) goes on in that turn. A
\* call all of whose remaining checks are on replaced key objects is taken to
\* return at once: those checks write to objects nothing reads.
HasChecks(ts, owner) == \E t \in ts : t.owner = owner

Settle(adm, ts) ==
    [a \in DOMAIN adm |->
        IF adm[a].pc = "checking" /\ ~HasChecks(ts, a) THEN IdleAdmin ELSE adm[a]]

\* one health check's axios.post settles: key.status is written on the key
\* object the check was started with; after the last check of startServer's
\* checkAllKeys the server listens, after the last of a save's the save returns
TestDone(t, outcome) ==
    /\ UNCHANGED <<tokenVars, promptVars, claudeVars>>
    /\ t \in tests
    /\ tests' = tests \ {t}
    /\ providers' = [providers EXCEPT ![t.p].keys[t.i].status = TestVerdict(outcome)]
    /\ ghost' = PicksKept(ghost, providers, providers')
    /\ boot' = IF t.owner = 0 /\ ~HasChecks(tests', 0) THEN "listening" ELSE boot
    /\ admin' = Settle(admin, tests')
    /\ last' = Label(IF HasChecks(tests', t.owner) THEN "test"
                     ELSE IF t.owner = 0 THEN "listen" ELSE "saved",
                     t.p, providers[t.p].keys[t.i].value, 0, 0)
    /\ UNCHANGED <<env, reloadBudget, db, reqs, reqBudget, observe>>

\* ------------------------------------------------------------ proxy requests
\* server.js dynamic route, then proxyRequest up to its first await: 404 when
\* the provider is not in the map, 503 when getRotatingKey returns null, else
\* the request goes on with the selected key's value
RouteAndSelect(p) ==
    /\ UNCHANGED <<tokenVars, promptVars, claudeVars>>
    /\ boot = "listening"
    /\ BagCardinality(reqs) < MaxInflight
    /\ LET keyIndex == GetRotatingKey(providers, p)
       IN IF p \notin DOMAIN providers
          THEN /\ last' = Label("request", p, "", 0, 404)
               /\ UNCHANGED <<providers, reqs, ghost>>
          ELSE IF keyIndex = -1
          THEN /\ last' = Label("request", p, "", 0, 503)
               /\ UNCHANGED <<providers, reqs, ghost>>
          ELSE /\ providers' = AdvanceCursor(providers, p, keyIndex)
               /\ ghost' = GhostAfterPick(ghost, providers, p, keyIndex, observe)
               /\ reqs' = reqs (+) SetToBag({<<p, providers[p].keys[keyIndex + 1].value>>})
               /\ last' = Label("select", p, providers[p].keys[keyIndex + 1].value,
                                keyIndex, 0)
    /\ UNCHANGED <<env, reloadBudget, db, tests, boot, admin, observe>>

StartRequest(p) ==
    /\ RouteAndSelect(p)
    /\ UNCHANGED reqBudget

StartBudgetedRequest(p) ==
    /\ reqBudget > 0
    /\ reqBudget' = reqBudget - 1
    /\ RouteAndSelect(p)

\* the upstream call (or the assembly before it) of a request that holds key
\* value x[2] of provider x[1] settles: recordSuccess on an answer,
\* handleProxyError on a throw
CompleteRequest(x, outcome) ==
    /\ UNCHANGED <<tokenVars, promptVars, claudeVars>>
    /\ BagIn(x, reqs)
    /\ providers' = IF outcome = 200
                    THEN RecordSuccess(providers, x[1], x[2])
                    ELSE HandleProxyError(providers, x[1], x[2], outcome)
    /\ ghost' = MarkDeactivated(
                    PicksKept(GhostAfterCall(ghost, providers, x[1], x[2], outcome, observe),
                              providers, providers'),
                    providers, providers', observe)
    /\ reqs' = reqs (-) SetToBag({x})
    /\ last' = Label("complete", x[1], x[2], outcome,
                     IF outcome = 200 THEN 200 ELSE ErrorResponse(outcome))
    /\ UNCHANGED <<env, reloadBudget, db, tests, boot, admin, reqBudget, observe>>

\* --------------------------------------------------- customProviderManager.js
\* A call's position is the await it is suspended at; the synchronous code
\* that follows the await's answer is one action. A call that has changed
\* nothing yet is not in the model before its first answer arrives.

\* the checks of keys that the map no longer holds: their key.status write
\* lands on an object nothing reads, so the model forgets them
Surviving(ts, dropped) == {t \in ts : t.p \notin dropped}

\* initialize up to its await of the custom_providers query: the map is
\* cleared and holds the built-in providers only
InitializeSync(a) ==
    /\ providers' = LoadBuiltins(env)
    /\ ghost' = GhostOf(providers')
    /\ tests' = Surviving(tests, ProviderIds)
    /\ admin' = Settle(a, tests')

\* save(providerData) with an id, after the SELECT of the old row answered:
\* criticalChange when a compared column differs (api_keys here; the row of the
\* model carries no URL, model or type); the UPDATE is awaited next
SaveUpdateBegin(form) ==
    /\ UNCHANGED <<tokenVars, promptVars, claudeVars>>
    /\ boot = "listening"
    /\ Len(admin) < reloadBudget
    /\ admin' = Append(admin,
                    [pc |-> "write", kind |-> "save",
                     critical |-> (Custom \in DOMAIN db /\ db[Custom].api_keys # form.api_keys),
                     form |-> form, old |-> {}])
    /\ last' = Label("save", Custom, "", 0, 0)
    /\ UNCHANGED <<env, reloadBudget, db, providers, tests, boot, reqs, ghost, reqBudget, observe>>

\* the UPDATE answered (it changes the row when there is one), then initialize
SaveUpdateWritten(a) ==
    /\ UNCHANGED <<tokenVars, promptVars, claudeVars>>
    /\ admin[a].pc = "write"
    /\ db' = IF Custom \in DOMAIN db THEN [db EXCEPT ![Custom] = admin[a].form] ELSE db
    /\ InitializeSync([admin EXCEPT ![a].pc = "query", ![a].old = DOMAIN providers])
    /\ last' = Label("initialize", "", "", 0, 0)
    /\ UNCHANGED <<env, reloadBudget, boot, reqs, reqBudget, observe>>

\* save(providerData) without an id, after its INSERT answered: always a
\* critical change; then initialize
SaveInsert(form) ==
    /\ UNCHANGED <<tokenVars, promptVars, claudeVars>>
    /\ boot = "listening"
    /\ Len(admin) < reloadBudget
    /\ Custom \notin DOMAIN db
    /\ db' = (Custom :> form)
    /\ InitializeSync(Append(admin, [pc |-> "query", kind |-> "save", critical |-> TRUE,
                                      form |-> form, old |-> DOMAIN providers]))
    /\ last' = Label("initialize", "", "", 0, 0)
    /\ UNCHANGED <<env, reloadBudget, boot, reqs, reqBudget, observe>>

\* remove(id), after its DELETE answered; then initialize
Remove ==
    /\ UNCHANGED <<tokenVars, promptVars, claudeVars>>
    /\ boot = "listening"
    /\ Len(admin) < reloadBudget
    /\ db' = [p \in (DOMAIN db) \ {Custom} |-> db[p]]
    /\ InitializeSync(Append(admin, [IdleAdmin EXCEPT !.pc = "query", !.kind = "remove",
                                                       !.old = DOMAIN providers]))
    /\ last' = Label("initialize", "", "", 0, 0)
    /\ UNCHANGED <<env, reloadBudget, boot, reqs, reqBudget, observe>>

\* the custom_providers query of initialize answers: the enabled custom
\* providers are added; save then runs checkAllKeys only on a critical change,
\* remove never does
QueryDone(a) ==
    /\ UNCHANGED <<tokenVars, promptVars, claudeVars>>
    /\ admin[a].pc = "query"
    /\ providers' = LoadCustoms(providers, db)
    /\ ghost' = GhostAfterLoad(providers', ghost, db)
    /\ LET checks == admin[a].kind = "save" /\ admin[a].critical
           kept == Surviving(tests, {p \in EnabledRows(db) : Len(db[p].api_keys) > 0})
       IN /\ tests' = IF checks THEN kept \cup StartedTests(providers', a) ELSE kept
          /\ admin' = Settle([admin EXCEPT ![a] = IF checks THEN [@ EXCEPT !.pc = "checking"]
                                                 ELSE IdleAdmin], tests')
          /\ last' = Label(IF checks THEN "checkAllKeys" ELSE "reloaded", "", "", 0, 0)
    /\ UNCHANGED <<env, reloadBudget, db, boot, reqs, reqBudget, observe>>

\* the query fails: initialize rethrows, the map keeps the built-in providers
QueryFail(a) ==
    /\ UNCHANGED <<tokenVars, promptVars, claudeVars>>
    /\ admin[a].pc = "query"
    /\ admin' = [admin EXCEPT ![a] = IdleAdmin]
    /\ last' = Label("initializeFailed", "", "", 0, 0)
    /\ UNCHANGED <<env, reloadBudget, db, providers, tests, boot, reqs, ghost, reqBudget, observe>>

\* ---------------------------------------------------------- tokenManager.js
\* expires_at is a set: empty for NULL, else the one instant of expiry
TokenIds == {"tokA"}
Callers == TokenIds \cup {"bogus"}      \* the bearer values requests arrive with
RpmValues == {1, 3}
ExpiryValues == {{}, {1}}
TokenRows == [rpm : RpmValues, is_enabled : BOOLEAN, expires_at : ExpiryValues]
TickSteps == {1, 59999}

\* tokenData.expires_at && new Date(tokenData.expires_at) < now
Expired(row, now) == \E e \in row.expires_at : e < now

\* fault variant of LoadedRow: initialize stores the row as the table has it
LoadedRowAsIs(row, now) == row

\* initialize: a row that is enabled and past its expiry is marked disabled in
\* memory before it is stored in state.tokens
LoadedRow(row, now) ==
    IF row.is_enabled /\ Expired(row, now) THEN [row EXCEPT !.is_enabled = FALSE] ELSE row

\* fault variant of VerifyCounts: <= where the code has <
VerifyCountsInclusive(now, ts) == now - ts <= RATE_WINDOW_MS

\* verifyAndRateLimit: timestamp => now - timestamp < 60000
VerifyCounts(now, ts) == now - ts < RATE_WINDOW_MS

\* fault variant of SweepKeeps: the sweep keeps the stale timestamps
SweepKeepsStale(now, ts) == now - ts >= RATE_WINDOW_MS

\* cleanupRequestTimestamps: ts => now - ts < 60000
SweepKeeps(now, ts) == now - ts < RATE_WINDOW_MS

RecentRequests(reqMap, t, now) ==
    SelectSeq(IF t \in DOMAIN reqMap THEN reqMap[t] ELSE <<>>,
              LAMBDA ts : VerifyCounts(now, ts))

\* fault variant of VerifyResult: the expiry is tested before the enabled flag
VerifyResultExpiryFirst(tokMap, reqMap, t, now) ==
    IF t \notin DOMAIN tokMap THEN "invalid"
    ELSE IF Expired(tokMap[t], now) THEN "expired"
    ELSE IF ~tokMap[t].is_enabled THEN "disabled"
    ELSE IF Len(RecentRequests(reqMap, t, now)) >= tokMap[t].rpm THEN "limited"
    ELSE "ok"

\* verifyAndRateLimit: the order of its tests and the result of the first
\* that fails
VerifyResult(tokMap, reqMap, t, now) ==
    IF t \notin DOMAIN tokMap THEN "invalid"
    ELSE IF ~tokMap[t].is_enabled THEN "disabled"
    ELSE IF Expired(tokMap[t], now) THEN "expired"
    ELSE IF Len(RecentRequests(reqMap, t, now)) >= tokMap[t].rpm THEN "limited"
    ELSE "ok"

\* the wall clock advances between two handlers
Tick(d) ==
    /\ ticks < MaxTicks
    /\ clock' = clock + d
    /\ ticks' = ticks + 1
    /\ last' = Label("tick", "", "", 0, 0)
    /\ UNCHANGED <<poolVars, promptVars, claudeVars, tokenAdminVars, userTokens, tokens, requests, tokenBoot, admitted, atLoad>>

\* initialize after its SELECT answered: state.tokens is rebuilt; when a token
\* was found expired the UPDATE that disables it in the table is awaited next.
\* The sweep's interval timer starts when initialize ends.
TokenInitialize ==
    /\ tokenBoot = "start"
    /\ tokens' = [t \in DOMAIN userTokens |-> LoadedRow(userTokens[t], clock)]
    /\ atLoad' = [t \in DOMAIN userTokens |->
                    IF ~userTokens[t].is_enabled THEN "disabled"
                    ELSE IF \E e \in userTokens[t].expires_at : e < clock THEN "expired"
                    ELSE "valid"]
    /\ admitted' = [t \in DOMAIN userTokens |-> <<>>]
    /\ tokenBoot' = IF \E t \in DOMAIN userTokens : tokens'[t] # userTokens[t]
                    THEN "update" ELSE "ready"
    /\ last' = Label("loadTokens", "", "", 0, 0)
    /\ UNCHANGED <<poolVars, promptVars, claudeVars, tokenAdminVars, clock, ticks, userTokens, requests>>

\* the SELECT fails: the catch logs, state.tokens stays empty
TokenInitializeFail ==
    /\ tokenBoot = "start"
    /\ tokenBoot' = "ready"
    /\ last' = Label("loadTokensFailed", "", "", 0, 0)
    /\ UNCHANGED <<poolVars, promptVars, claudeVars, tokenAdminVars, clock, ticks, userTokens, tokens, requests, admitted, atLoad>>

\* the UPDATE answers (ok) or fails (the catch logs); initialize ends
TokenUpdateDone(ok) ==
    /\ tokenBoot = "update"
    /\ userTokens' = IF ok THEN [t \in DOMAIN userTokens |-> tokens[t]] ELSE userTokens
    /\ tokenBoot' = "ready"
    /\ last' = Label("tokensUpdated", "", "", 0, 0)
    /\ UNCHANGED <<poolVars, promptVars, claudeVars, tokenAdminVars, clock, ticks, tokens, requests, admitted, atLoad>>

\* security.js in token mode: verifyAndRateLimit(token), which has no await
\* inside, and the response on a refusal. last.key names the result, last.code
\* its HTTP status (200: next() is called).
VerifyAndRateLimit(t) ==
    /\ tokenBoot = "ready"
    /\ LET result == VerifyResult(tokens, requests, t, clock)
           recentRequests == RecentRequests(requests, t, clock)
       IN IF result = "invalid"
          THEN /\ last' = Label("verify", t, "invalid", 0, 401)
               /\ UNCHANGED <<requests, admitted>>
          ELSE IF result = "disabled"
          THEN /\ last' = Label("verify", t, "disabled", 0, 403)
               /\ UNCHANGED <<requests, admitted>>
          ELSE IF result = "expired"
          THEN /\ last' = Label("verify", t, "expired", 0, 403)
               /\ UNCHANGED <<requests, admitted>>
          ELSE IF result = "limited"
          THEN /\ last' = Label("verify", t, "limited", tokens[t].rpm, 429)
               /\ UNCHANGED <<requests, admitted>>
          ELSE /\ requests' = [u \in (DOMAIN requests) \cup {t} |->
                                 IF u = t THEN Append(recentRequests, clock)
                                 ELSE requests[u]]
               /\ admitted' = [u \in (DOMAIN admitted) \cup {t} |->
                                 IF u = t
                                 THEN Append(IF t \in DOMAIN admitted THEN admitted[t]
                                             ELSE <<>>, clock)
                                 ELSE admitted[u]]
               /\ last' = Label("verify", t, "ok", 0, 200)
    /\ UNCHANGED <<poolVars, promptVars, claudeVars, tokenAdminVars, clock, ticks, userTokens, tokens, tokenBoot, atLoad>>

\* the interval timer fires: stale timestamps are dropped, and so is the entry
\* of a token that keeps none
CleanupRequestTimestamps ==
    /\ tokenBoot = "ready"
    /\ LET kept == [t \in DOMAIN requests |->
                        SelectSeq(requests[t], LAMBDA ts : SweepKeeps(clock, ts))]
       IN requests' = [t \in {u \in DOMAIN requests : Len(kept[u]) > 0} |-> kept[t]]
    /\ last' = Label("sweep", "", "", 0, 0)
    /\ UNCHANGED <<poolVars, promptVars, claudeVars, tokenAdminVars, clock, ticks, userTokens, tokens, tokenBoot, admitted, atLoad>>

\* ---------------------------------------- tokenManager.js: saveToken, deleteToken
NewTokenIds == {"tokB"}                \* values crypto.randomBytes may return
AdminForms == [rpm : RpmValues, is_enabled : BOOLEAN, expires_at : {{}}]
NoRow == [rpm |-> 1, is_enabled |-> FALSE, expires_at |-> {}]
IdleTokenOp == [kind |-> "none", step |-> "", t |-> "", row |-> NoRow, nt |-> ""]

Without(m, t) == [u \in (DOMAIN m) \ {t} |-> m[u]]
With(m, t, v) == [u \in (DOMAIN m) \cup {t} |-> IF u = t THEN v ELSE m[u]]

\* saveToken up to the await of its writing statement. t is the token value
\* of the row the form's id names, nt the value randomBytes returns.
\*   update: the SELECT finds no row -> throws; else the UPDATE is sent
\*   regenerate: the SELECT's token is deleted from state.tokens, then the
\*               UPDATE with the new value is sent
\*   create: the INSERT is sent
SaveTokenBegin(kind, t, nt, form) ==
    /\ tokenBoot = "ready"
    /\ tokenOp.kind = "none"
    /\ tokenOpsDone < TokenAdminBudget
    /\ kind \in {"update", "regenerate", "create"}
    /\ nt \notin (DOMAIN userTokens) \cup (DOMAIN tokens)
    /\ tokenOpsDone' = tokenOpsDone + 1
    /\ IF kind = "update" /\ t \notin DOMAIN userTokens
       THEN /\ last' = Label("saveToken", t, "notfound", 0, 500)
            /\ UNCHANGED <<tokenOp, tokens>>
       ELSE /\ tokenOp' = [kind |-> kind, step |-> "query",
                           t |-> IF kind = "create" THEN nt ELSE t,
                           row |-> form,
                           nt |-> IF kind = "update" THEN t ELSE nt]
            /\ tokens' = IF kind = "regenerate" /\ t \in DOMAIN userTokens
                         THEN Without(tokens, t) ELSE tokens
            /\ last' = Label("saveToken", t, kind, 0, 0)
    /\ UNCHANGED <<poolVars, promptVars, claudeVars, clock, ticks, userTokens, requests, tokenBoot, admitted, atLoad>>

\* deleteToken up to the await of its DELETE: the SELECT's token is deleted
\* from state.tokens and state.requests before the DELETE is sent
DeleteTokenBegin(t) ==
    /\ tokenBoot = "ready"
    /\ tokenOp.kind = "none"
    /\ tokenOpsDone < TokenAdminBudget
    /\ tokenOpsDone' = tokenOpsDone + 1
    /\ tokenOp' = [kind |-> "delete", step |-> "query", t |-> t, row |-> NoRow, nt |-> t]
    /\ tokens' = IF t \in DOMAIN userTokens THEN Without(tokens, t) ELSE tokens
    /\ requests' = IF t \in DOMAIN userTokens THEN Without(requests, t) ELSE requests
    /\ last' = Label("deleteToken", t, "delete", 0, 0)
    /\ UNCHANGED <<poolVars, promptVars, claudeVars, clock, ticks, userTokens, tokenBoot, admitted, atLoad>>

\* the database executes the UPDATE, INSERT or DELETE of the call in progress
\* (ok), or the statement fails
StoreApplies(ok) ==
    /\ tokenOp.step = "query"
    /\ userTokens' =
         IF ~ok THEN userTokens
         ELSE IF tokenOp.kind = "delete" THEN Without(userTokens, tokenOp.t)
         ELSE IF tokenOp.t \notin DOMAIN userTokens /\ tokenOp.kind # "create"
              THEN userTokens
         ELSE With(Without(userTokens, tokenOp.t), tokenOp.nt, tokenOp.row)
    /\ tokenOp' = [tokenOp EXCEPT !.step =
                     IF ~ok THEN "failed"
                     ELSE IF tokenOp.kind \in {"update", "regenerate"}
                             /\ tokenOp.t \notin DOMAIN userTokens
                          THEN "nomatch" ELSE "written"]
    /\ last' = Label("store", tokenOp.t, tokenOp.kind, 0, IF ok THEN 200 ELSE 500)
    /\ UNCHANGED <<poolVars, promptVars, claudeVars, clock, ticks, tokens, requests, tokenBoot, admitted, atLoad,
                   tokenOpsDone>>

\* the awaited statement settles: saveToken stores RETURNING's row in
\* state.tokens and returns; deleteToken returns; a failed statement, or an
\* UPDATE that matched no row (savedToken undefined), throws
TokenOpReturn ==
    /\ tokenOp.step \in {"written", "failed", "nomatch"}
    /\ tokens' = IF tokenOp.step = "written" /\ tokenOp.kind # "delete"
                 THEN With(tokens, tokenOp.nt, tokenOp.row) ELSE tokens
    /\ tokenOp' = IdleTokenOp
    /\ last' = Label(IF tokenOp.kind = "delete" THEN "deleteToken" ELSE "saveToken",
                     tokenOp.t,
                     IF tokenOp.step = "written"
                     THEN "done" ELSE "threw",
                     0,
                     IF tokenOp.step = "written"
                     THEN 200 ELSE 500)
    /\ UNCHANGED <<poolVars, promptVars, claudeVars, clock, ticks, userTokens, requests, tokenBoot, admitted, atLoad,
                   tokenOpsDone>>

\* ---------------------------------------------------------- promptService.js
\* A text is a sequence of pieces: what the regular expressions and string
\* methods of the code tell apart. k names the kind of piece:
\*   text       a run of characters with no markup, a
\*   ws         white space
\*   marker     <<CHAT_HISTORY>>
\*   set        {{setglobalvar::a::b}}        get   {{getglobalvar::a}}
\*   char       {{char}}     userinfo   <<USER_INFO>>   custom  <<CUSTOM_PROMPT>>
\*   tag        <A> with A in capitals: a command tag
\*   w          <w>
\*   persona    <a's Persona>
\*   userpersona    <UserPersona> a </UserPersona>
\*   custompersona  <Custom_Prompt> a </Custom_Prompt>
Piece(k, a, b) == [k |-> k, a |-> a, b |-> b]
Text(a) == Piece("text", a, "")
Ws == Piece("ws", "", "")
Marker == Piece("marker", "", "")
SetVar(a, b) == Piece("set", a, b)
GetVar(a) == Piece("get", a, "")
CharPh == Piece("char", "", "")
UserInfoPh == Piece("userinfo", "", "")
CustomPromptPh == Piece("custom", "", "")
Tag(a) == Piece("tag", a, "")
WTag == Piece("w", "", "")
Persona(a) == Piece("persona", a, "")
UserPersona(a) == Piece("userpersona", a, "")
CustomPrompt(a) == Piece("custompersona", a, "")

Msg(role, content) == [role |-> role, content |-> content]

RECURSIVE TrimLeft(_)
TrimLeft(s) ==
    IF s = <<>> THEN <<>>
    ELSE IF Head(s).k = "ws" THEN TrimLeft(Tail(s)) ELSE s

RECURSIVE TrimRight(_)
TrimRight(s) ==
    IF s = <<>> THEN <<>>
    ELSE IF s[Len(s)].k = "ws" THEN TrimRight(SubSeq(s, 1, Len(s) - 1)) ELSE s

\* String.prototype.trim
Trim(s) == TrimRight(TrimLeft(s))

\* the index of the first piece of kind k in s, 0 when there is none
FirstOf(s, k) ==
    IF \E i \in 1..Len(s) : s[i].k = k
    THEN Min({i \in 1..Len(s) : s[i].k = k}) ELSE 0

\* the index of the last piece of kind k in s, 0 when there is none
LastOf(s, k) ==
    IF \E i \in 1..Len(s) : s[i].k = k
    THEN CHOOSE i \in 1..Len(s) : s[i].k = k /\ \A j \in i + 1..Len(s) : s[j].k # k
    ELSE 0

\* text.replace(match[0], ''): s without its piece at index i
RemoveAt(s, i) ==
    IF i = 0 THEN s ELSE SubSeq(s, 1, i - 1) \o SubSeq(s, i + 1, Len(s))

\* the inner text of a matched element, trimmed: '' when it was blank
InnerText(a) == IF a = "" THEN <<>> ELSE <<Text(a)>>

\* chatHistory: an assistant message that contains <w> keeps what follows
\* its last <w>, trimmed
CleanHistory(m) ==
    IF m.role = "assistant" /\ LastOf(m.content, "w") # 0
    THEN Msg(m.role, Trim(SubSeq(m.content, LastOf(m.content, "w") + 1, Len(m.content))))
    ELSE m

parseJanitorInput(incomingMessages) ==
    IF Len(incomingMessages) = 0
    THEN [userInfo |-> <<>>, customPromptInfo |-> <<>>, unparsedText |-> <<>>,
          characterName |-> "Character", chatHistory |-> <<>>]
    ELSE LET setup == incomingMessages[1].content
             u == FirstOf(setup, "userpersona")
             afterUser == RemoveAt(setup, u)
             cp == FirstOf(afterUser, "custompersona")
             remainingText == RemoveAt(afterUser, cp)
             ch == FirstOf(setup, "persona")
         IN [userInfo |-> IF u = 0 THEN <<>> ELSE InnerText(setup[u].a),
             customPromptInfo |-> IF cp = 0 THEN <<>> ELSE InnerText(afterUser[cp].a),
             unparsedText |-> Trim(remainingText),
             characterName |-> IF ch = 0 THEN "Character" ELSE setup[ch].a,
             chatHistory |-> [i \in 1..Len(incomingMessages) - 1 |->
                                 CleanHistory(incomingMessages[i + 1])]]

\* the distinct tags /<([A-Z0-9_]+)>/g finds in all the messages
parseCommandsFromMessages(messages) ==
    UNION {{messages[i].content[j].a :
               j \in {n \in 1..Len(messages[i].content) : messages[i].content[n].k = "tag"}} :
           i \in 1..Len(messages)}

\* SELECT * FROM commands WHERE command_tag = ANY($1)
getCommandDefinitions(table, commandTags) ==
    SelectSeq(table, LAMBDA cmd : cmd.command_tag \in commandTags)

\* SELECT * FROM global_prompt_blocks WHERE provider = $1 ORDER BY position
getStructure(table, provider) ==
    IF provider \in DOMAIN table THEN table[provider] ELSE <<>>

\* replacer: {{char}}, <<USER_INFO>> and <<CUSTOM_PROMPT>> are replaced
RECURSIVE replacer(_, _)
replacer(text, parsed) ==
    IF text = <<>> THEN <<>>
    ELSE (IF Head(text).k = "char" THEN <<Text(parsed.characterName)>>
          ELSE IF Head(text).k = "userinfo" THEN parsed.userInfo
          ELSE IF Head(text).k = "custom" THEN parsed.customPromptInfo
          ELSE <<Head(text)>>) \o replacer(Tail(text), parsed)

\* processMacros, first replace: every setglobalvar is stored, in order
RECURSIVE StoreAll(_, _)
StoreAll(text, variables) ==
    IF text = <<>> THEN variables
    ELSE StoreAll(Tail(text),
                  IF Head(text).k = "set"
                  THEN [n \in (DOMAIN variables) \cup {Head(text).a} |->
                           IF n = Head(text).a THEN Head(text).b ELSE variables[n]]
                  ELSE variables)

\* processMacros, second replace: every getglobalvar becomes the stored
\* value, or '' when the name is not in the map
RECURSIVE ExpandAll(_, _)
ExpandAll(text, variables) ==
    IF text = <<>> THEN <<>>
    ELSE (IF Head(text).k = "get"
          THEN (IF Head(text).a \in DOMAIN variables
                THEN InnerText(variables[Head(text).a]) ELSE <<>>)
          ELSE <<Head(text)>>) \o ExpandAll(Tail(text), variables)

processMacros(text, variables) ==
    LET stored == StoreAll(text, variables)
    IN [text |-> ExpandAll(SelectSeq(text, LAMBDA x : x.k # "set"), stored),
        variables |-> stored]

\* content.trim() is the empty string
Blank(text) == \A i \in 1..Len(text) : text[i].k = "ws"

\* commandsByType[type]: role and content of the definitions of that type
RECURSIVE CommandsOfType(_, _)
CommandsOfType(defs, type) ==
    IF defs = <<>> THEN <<>>
    ELSE (IF Head(defs).command_type = type
          THEN <<Msg(Head(defs).block_role, Head(defs).block_content)>>
          ELSE <<>>) \o CommandsOfType(Tail(defs), type)

\* a Prompting Fallback block takes the content of the definition whose
\* command_id it names, when the request resolved one
CurrentContent(block, defs) ==
    IF block.block_type = "Prompting Fallback" /\ block.replacement_command_id # ""
       /\ \E i \in 1..Len(defs) : defs[i].command_id = block.replacement_command_id
    THEN defs[Min({i \in 1..Len(defs) :
                     defs[i].command_id = block.replacement_command_id})].block_content
    ELSE block.content

\* fault variant of ContentSource: a Conditional Prefill block is never skipped
ContentSourceUnconditional(block, defs, hasPrefillCommand) ==
    IF block.block_type \in {"Jailbreak", "Additional Commands", "Prefill"}
    THEN CommandsOfType(defs, block.block_type)
    ELSE <<Msg(block.role, CurrentContent(block, defs))>>

\* contentSource of one block
ContentSource(block, defs, hasPrefillCommand) ==
    IF block.block_type = "Conditional Prefill" /\ hasPrefillCommand THEN <<>>
    ELSE IF block.block_type \in {"Jailbreak", "Additional Commands", "Prefill"}
    THEN CommandsOfType(defs, block.block_type)
    ELSE <<Msg(block.role, CurrentContent(block, defs))>>

\* fault variant of InjectHistory: the history follows both parts
InjectHistoryLast(before, chatHistory, after) == before \o after \o chatHistory

\* push parts[0], push ...chatHistory, push parts[1]
InjectHistory(before, chatHistory, after) == before \o chatHistory \o after

\* fault variant of PushItem: every item is pushed under its own role
PushItemOwnRole(acc, item, block, parsed) ==
    LET r == processMacros(replacer(item.content, parsed), acc.variables)
        content == r.text
        role == item.role
        m == FirstOf(content, "marker")
        rest == SubSeq(content, m + 1, Len(content))
        m2 == FirstOf(rest, "marker")
        part0 == SubSeq(content, 1, m - 1)
        part1 == IF m2 = 0 THEN rest ELSE SubSeq(rest, 1, m2 - 1)
    IN IF m # 0
       THEN [out |-> acc.out
                     \o InjectHistory(IF Blank(part0) THEN <<>> ELSE <<Msg(role, part0)>>,
                                      parsed.chatHistory,
                                      IF Blank(part1) THEN <<>> ELSE <<Msg(role, part1)>>),
             variables |-> r.variables,
             injected |-> TRUE]
       ELSE [out |-> acc.out \o (IF Blank(content) THEN <<>> ELSE <<Msg(role, content)>>),
             variables |-> r.variables,
             injected |-> acc.injected]

\* the body of the inner loop for one item: acc is [out, variables, injected]
PushItem(acc, item, block, parsed) ==
    LET r == processMacros(replacer(item.content, parsed), acc.variables)
        content == r.text
        role == IF block.block_type = "Additional Commands" THEN block.role ELSE item.role
        m == FirstOf(content, "marker")
        rest == SubSeq(content, m + 1, Len(content))
        m2 == FirstOf(rest, "marker")
        part0 == SubSeq(content, 1, m - 1)
        part1 == IF m2 = 0 THEN rest ELSE SubSeq(rest, 1, m2 - 1)
    IN IF m # 0
       THEN [out |-> acc.out
                     \o InjectHistory(IF Blank(part0) THEN <<>> ELSE <<Msg(role, part0)>>,
                                      parsed.chatHistory,
                                      IF Blank(part1) THEN <<>> ELSE <<Msg(role, part1)>>),
             variables |-> r.variables,
             injected |-> TRUE]
       ELSE [out |-> acc.out \o (IF Blank(content) THEN <<>> ELSE <<Msg(role, content)>>),
             variables |-> r.variables,
             injected |-> acc.injected]

RECURSIVE PushItems(_, _, _, _)
PushItems(acc, items, block, parsed) ==
    IF items = <<>> THEN acc
    ELSE PushItems(PushItem(acc, Head(items), block, parsed), Tail(items), block, parsed)

\* the loop over structureToUse
RECURSIVE PushBlocks(_, _, _, _, _)
PushBlocks(acc, structure, defs, hasPrefillCommand, parsed) ==
    IF structure = <<>> THEN acc
    ELSE LET block == Head(structure)
             next ==
               IF block.block_type = "Unparsed Text Injection"
               THEN [acc EXCEPT !.out =
                       IF parsed.unparsedText = <<>> THEN @
                       ELSE @ \o <<Msg(block.role, parsed.unparsedText)>>]
               ELSE PushItems(acc, ContentSource(block, defs, hasPrefillCommand),
                              block, parsed)
         IN PushBlocks(next, Tail(structure), defs, hasPrefillCommand, parsed)

\* the tags the UserInputError message lists
PrefillTags(defs) ==
    {defs[i].command_tag : i \in {j \in 1..Len(defs) : defs[j].command_type = "Prefill"}}

PrefillCount(defs) ==
    Cardinality({j \in 1..Len(defs) : defs[j].command_type = "Prefill"})

NoTags == {}

\* fault variant of PassThrough: the cleaned history is returned
PassThroughCleaned(incomingMessages, parsed) ==
    IF Len(incomingMessages) = 0 THEN <<>>
    ELSE <<incomingMessages[1]>> \o parsed.chatHistory

\* finalMessages: incomingMessages, when structureToUse is empty
PassThrough(incomingMessages, parsed) == incomingMessages

\* buildFinalMessages from the answer of getCommandDefinitions on: what it
\* returns, or the UserInputError it throws (error, with the tags it names),
\* and the requestVariables map it leaves
Assemble(structureToUse, commandDefinitions, incomingMessages, variables) ==
    LET parsed == parseJanitorInput(incomingMessages)
        commandTags == parseCommandsFromMessages(incomingMessages)
        done == PushBlocks([out |-> <<>>, variables |-> variables, injected |-> FALSE],
                           structureToUse, commandDefinitions,
                           PrefillCount(commandDefinitions) > 0, parsed)
    IN IF Len(structureToUse) = 0
       THEN [error |-> FALSE, tags |-> NoTags,
             finalMessages |-> PassThrough(incomingMessages, parsed),
             characterName |-> parsed.characterName, commandTags |-> commandTags,
             variables |-> variables]
       ELSE IF PrefillCount(commandDefinitions) > 1
       THEN [error |-> TRUE, tags |-> PrefillTags(commandDefinitions),
             finalMessages |-> <<>>, characterName |-> "", commandTags |-> NoTags,
             variables |-> variables]
       ELSE [error |-> FALSE, tags |-> NoTags,
             finalMessages |-> IF done.injected THEN done.out
                               ELSE done.out \o parsed.chatHistory,
             characterName |-> parsed.characterName, commandTags |-> commandTags,
             variables |-> done.variables]

\* --------------------------------- the calls of proxyRequest, buildFinalMessages
CallIds == {"r1", "r2"}                \* reqId
EnforcedModel == "enforced"            \* enforced_model_name of the custom row
RequestModels == {EnforcedModel, "other"}

NoResult == [error |-> FALSE, tags |-> NoTags, finalMessages |-> <<>>,
             characterName |-> "", commandTags |-> NoTags, variables |-> EmptyMap]
IdleCall == [pc |-> "idle", via |-> "", provider |-> "", incoming |-> <<>>, model |-> "",
             key |-> "", structure |-> <<>>, defs |-> <<>>, steps |-> <<>>, code |-> 0,
             result |-> NoResult]
NoClaudeRequest == [sent |-> FALSE, system |-> <<>>, messages |-> <<>>]
NoPrompts ==
    /\ blocks = EmptyMap
    /\ commands = <<>>
    /\ openaiRequest = <<>>

\* fault variant of VariablesOf: one map shared by all calls
VariablesOfShared(c) == "r1"

\* const requestVariables = new Map(): the map call c reads and writes
VariablesOf(c) == c

\* providerConfig.enforcedModelName, set on the custom provider
\* fault variant: no provider enforces a model name
EnforcedModelNameNone(provs, p) == ""

EnforcedModelName(provs, p) == IF provs[p].isCustom THEN EnforcedModel ELSE ""

\* buildFinalMessages is entered: requestVariables = new Map(), then the
\* await of getStructure(provider)
Entered(call, via, p, incoming, model, key) ==
    [call EXCEPT !.pc = "getStructure", !.via = via, !.provider = p,
                 !.incoming = incoming, !.model = model, !.key = key]

\* buildFinalMessages called on its own
BuildFinalMessages(c, p, incoming) ==
    /\ calls[c].pc = "idle"
    /\ calls' = [calls EXCEPT ![c] = Entered(@, "direct", p, incoming, "", "")]
    /\ requestVariables' = [requestVariables EXCEPT ![VariablesOf(c)] = EmptyMap]
    /\ last' = Label("buildFinalMessages", p, c, 0, 0)
    /\ UNCHANGED <<poolVars, tokenVars, claudeVars, blocks, commands>>

\* server.js dynamic route, then proxyRequest up to its first await: 404 when
\* the provider is not in the map, 503 when getRotatingKey returns null, else
\* buildFinalMessages is entered with the selected key held
ProxyRequest(c, p, incoming, model) ==
    /\ boot = "listening"
    /\ calls[c].pc = "idle"
    /\ LET keyIndex == GetRotatingKey(providers, p)
       IN IF p \notin DOMAIN providers
          THEN /\ calls' = [calls EXCEPT ![c] = [@ EXCEPT !.pc = "done", !.via = "proxy",
                                                         !.provider = p, !.code = 404]]
               /\ last' = Label("proxyRequest", p, c, 0, 404)
               /\ UNCHANGED <<providers, ghost, requestVariables>>
          ELSE IF keyIndex = -1
          THEN /\ calls' = [calls EXCEPT ![c] = [@ EXCEPT !.pc = "done", !.via = "proxy",
                                                         !.provider = p, !.code = 503]]
               /\ last' = Label("proxyRequest", p, c, 0, 503)
               /\ UNCHANGED <<providers, ghost, requestVariables>>
          ELSE /\ providers' = AdvanceCursor(providers, p, keyIndex)
               /\ ghost' = GhostAfterPick(ghost, providers, p, keyIndex, observe)
               /\ calls' = [calls EXCEPT ![c] =
                              Entered(@, "proxy", p, incoming, model,
                                      providers[p].keys[keyIndex + 1].value)]
               /\ requestVariables' = [requestVariables EXCEPT ![VariablesOf(c)] = EmptyMap]
               /\ last' = Label("proxyRequest", p, c, keyIndex, 0)
    /\ UNCHANGED <<env, reloadBudget, db, tests, boot, admin, reqs, reqBudget, observe>>
    /\ UNCHANGED <<tokenVars, claudeVars, blocks, commands>>

\* the call's state when buildFinalMessages has ended with result r and, for
\* a call of proxyRequest, the synchronous stretch that follows: a
\* UserInputError goes to handleProxyError (400); handleOpenAICompatibleRequest
\* answers 400 when a custom provider's enforced model name is not the
\* body's model; else axios.post is awaited
Dispatched(call, r, provs) ==
    LET returned == [call EXCEPT !.result = r]
    IN IF call.via = "direct" THEN [returned EXCEPT !.pc = "done"]
       ELSE IF r.error THEN [returned EXCEPT !.pc = "done", !.code = ErrorResponse(-1)]
       ELSE IF EnforcedModelName(provs, call.provider) # ""
               /\ call.model # EnforcedModelName(provs, call.provider)
       THEN [returned EXCEPT !.pc = "done", !.code = 400]
       ELSE [returned EXCEPT !.pc = "upstream", !.steps = Append(@, "axios.post")]

\* buildFinalMessages goes on with structureToUse: getCommandDefinitions
\* queries only when the messages hold a tag, and without a query the call
\* runs on to its end in the same turn
WithStructure(c, call, op) ==
    LET commandTags == parseCommandsFromMessages(call.incoming)
        named == [call EXCEPT !.steps = Append(@, "getCommandDefinitions")]
        r == Assemble(call.structure, <<>>, call.incoming,
                      requestVariables[VariablesOf(c)])
        after == Dispatched(named, r, providers)
    IN IF commandTags # {}
       THEN /\ calls' = [calls EXCEPT ![c] = [named EXCEPT !.pc = "getCommandDefinitions"]]
            /\ last' = Label(op, call.provider, c, 0, 0)
            /\ UNCHANGED <<providers, requestVariables>>
       ELSE /\ calls' = [calls EXCEPT ![c] = after]
            /\ requestVariables' = [requestVariables EXCEPT ![VariablesOf(c)] = r.variables]
            /\ providers' = IF call.via = "proxy" /\ r.error
                            THEN HandleProxyError(providers, call.provider, call.key, -1)
                            ELSE providers
            /\ last' = Label(op, call.provider, c, 0, after.code)

\* getStructure(provider) answers
GetStructureDone(c) ==
    /\ calls[c].pc = "getStructure"
    /\ LET structureToUse == getStructure(blocks, calls[c].provider)
           loaded == [calls[c] EXCEPT !.structure = structureToUse,
                                      !.steps = Append(@, "getStructure")]
       IN IF Len(structureToUse) = 0 /\ calls[c].provider # "default"
          THEN /\ calls' = [calls EXCEPT ![c] = [loaded EXCEPT !.pc = "getDefaultStructure"]]
               /\ last' = Label("getStructure", calls[c].provider, c, 0, 0)
               /\ UNCHANGED <<providers, requestVariables>>
          ELSE WithStructure(c, loaded, "getStructure")
    /\ UNCHANGED <<env, reloadBudget, db, tests, boot, admin, reqs, ghost, reqBudget, observe>>
    /\ UNCHANGED <<tokenVars, claudeVars, blocks, commands>>

\* getStructure('default') answers
GetDefaultStructureDone(c) ==
    /\ calls[c].pc = "getDefaultStructure"
    /\ WithStructure(c, [calls[c] EXCEPT !.structure = getStructure(blocks, "default"),
                                         !.steps = Append(@, "getStructure")],
                     "getDefaultStructure")
    /\ UNCHANGED <<env, reloadBudget, db, tests, boot, admin, reqs, ghost, reqBudget, observe>>
    /\ UNCHANGED <<tokenVars, claudeVars, blocks, commands>>

\* the commands query answers: buildFinalMessages runs to its end
GetCommandDefinitionsDone(c) ==
    /\ calls[c].pc = "getCommandDefinitions"
    /\ LET commandDefinitions ==
               getCommandDefinitions(commands, parseCommandsFromMessages(calls[c].incoming))
           r == Assemble(calls[c].structure, commandDefinitions, calls[c].incoming,
                         requestVariables[VariablesOf(c)])
           after == Dispatched([calls[c] EXCEPT !.defs = commandDefinitions], r, providers)
       IN /\ calls' = [calls EXCEPT ![c] = after]
          /\ requestVariables' = [requestVariables EXCEPT ![VariablesOf(c)] = r.variables]
          /\ providers' = IF calls[c].via = "proxy" /\ r.error
                          THEN HandleProxyError(providers, calls[c].provider, calls[c].key, -1)
                          ELSE providers
          /\ last' = Label("getCommandDefinitions", calls[c].provider, c, 0, after.code)
    /\ UNCHANGED <<env, reloadBudget, db, tests, boot, admin, reqs, ghost, reqBudget, observe>>
    /\ UNCHANGED <<tokenVars, claudeVars, blocks, commands>>

\* axios.post settles: recordSuccess on an answer, handleProxyError on a throw
UpstreamDone(c, outcome) ==
    /\ calls[c].pc = "upstream"
    /\ providers' = IF outcome = 200
                    THEN RecordSuccess(providers, calls[c].provider, calls[c].key)
                    ELSE HandleProxyError(providers, calls[c].provider, calls[c].key, outcome)
    /\ ghost' = MarkDeactivated(
                    PicksKept(GhostAfterCall(ghost, providers, calls[c].provider,
                                             calls[c].key, outcome, observe),
                              providers, providers'),
                    providers, providers', observe)
    /\ calls' = [calls EXCEPT ![c] =
                   [@ EXCEPT !.pc = "done",
                             !.code = IF outcome = 200 THEN 200 ELSE ErrorResponse(outcome)]]
    /\ last' = Label("upstream", calls[c].provider, c, outcome, calls'[c].code)
    /\ UNCHANGED <<env, reloadBudget, db, tests, boot, admin, reqs, reqBudget, observe>>
    /\ UNCHANGED <<tokenVars, claudeVars, blocks, commands, requestVariables>>

\* ------------------------------------------- proxyController.js: Claude family
\* openAIToClaudeRequest: a system message is taken out and its content
\* becomes systemPrompt (the last one stays); any other message is kept when
\* its content is not blank; system is set when systemPrompt is not ''
openAIToClaudeRequest(messages) ==
    LET systems == SelectSeq(messages, LAMBDA m : m.role = "system")
    IN [sent |-> TRUE,
        system |-> IF systems = <<>> THEN <<>> ELSE systems[Len(systems)].content,
        messages |-> SelectSeq(messages, LAMBDA m : m.role # "system" /\ ~Blank(m.content))]

\* handleClaudeRequest up to its axios.post: forwardBody is built and sent
HandleClaudeRequest ==
    /\ ~claudeRequest.sent
    /\ claudeRequest' = openAIToClaudeRequest(openaiRequest)
    /\ last' = Label("handleClaudeRequest", "claude", "", 0, 0)
    /\ UNCHANGED <<poolVars, tokenVars, promptVars, openaiRequest, processor, upstream, response, downstream>>

\* ---------------------------------------------- the Claude stream handlers
\* an event of the upstream stream, as the JSON of its data line
Event(type, delta, text, stop) == [type |-> type, delta |-> delta, text |-> text, stop |-> stop]
StreamTexts == {"a", "b"}
StreamEvents ==
    {Event("content_block_delta", "text_delta", t, "") : t \in StreamTexts}
    \cup {Event("content_block_delta", "input_json_delta", "", ""),
          Event("message_delta", "", "", "end_turn"),
          Event("message_delta", "", "", ""),
          Event("message_start", "", "", ""),
          Event("message_stop", "", "", "")}

\* what res.write is given: a chunk with one choice, or the sentinel
Chunk(content, finish_reason) ==
    [data |-> "chunk", content |-> content, finish_reason |-> finish_reason]
Done == [data |-> "[DONE]", content |-> "", finish_reason |-> ""]
NoChunk == [data |-> "null", content |-> "", finish_reason |-> ""]

claudeStreamChunkToOpenAI(claudeChunk) ==
    IF claudeChunk.type = "content_block_delta"
    THEN IF claudeChunk.delta = "text_delta" THEN Chunk(claudeChunk.text, "") ELSE NoChunk
    ELSE IF claudeChunk.type = "message_delta"
    THEN IF claudeChunk.stop # "" THEN Chunk("", claudeChunk.stop) ELSE NoChunk
    ELSE NoChunk

\* the non-empty lines of one 'data' callback's chunk: the stream cuts its
\* bytes where it likes, so a chunk may begin with the tail of an event line
\* whose head came in the chunk before, and end with the head of one
Line(part, event) == [part |-> part, event |-> event]
LinesOf(events, tailFirst, cutLast) ==
    (IF tailFirst THEN <<Line("tail", Event("", "", "", ""))>> ELSE <<>>)
    \o [i \in 1..Len(events) |->
          Line(IF cutLast /\ i = Len(events) THEN "head" ELSE "whole", events[i])]

\* the body of the 'data' callback for these lines: a line is taken when it
\* starts with 'data: ' (a whole line or a head) and written when JSON.parse
\* accepts it (a whole line) and the conversion is not null
WritesOf(lines) ==
    LET taken == SelectSeq(lines, LAMBDA l : l.part = "whole")
        converted == [i \in 1..Len(taken) |-> claudeStreamChunkToOpenAI(taken[i].event)]
    IN SelectSeq(converted, LAMBDA c : c # NoChunk)

NoUpstream == [sent |-> <<>>, cut |-> FALSE, ended |-> FALSE]

\* a streamed response served by handler path: piped is set while
\* providerResponse.data.pipe(res) holds, closed once the caller has gone
Downstream(path) == [path |-> path, closed |-> FALSE, piped |-> path = "openai"]
NoDownstream == Downstream("claude")
NoStream == downstream = NoDownstream

\* providerResponse.data.on('data'): one chunk arrives with these event lines
OnData(events, cutLast) ==
    /\ downstream.path = "claude"
    /\ ~upstream.ended
    /\ Len(upstream.sent) + Len(events) <= MaxEvents
    /\ events # <<>> \/ upstream.cut
    /\ cutLast => events # <<>>
    /\ response' = response \o WritesOf(LinesOf(events, upstream.cut, cutLast))
    /\ upstream' = [upstream EXCEPT !.sent = @ \o events, !.cut = cutLast]
    /\ last' = Label("data", "claude", "", Len(events), 0)
    /\ UNCHANGED <<poolVars, tokenVars, promptVars, openaiRequest, processor, claudeRequest, downstream>>

\* providerResponse.data.on('end')
OnEnd ==
    /\ downstream.path = "claude"
    /\ ~upstream.ended
    /\ ~upstream.cut
    /\ response' = Append(response, Done)
    /\ upstream' = [upstream EXCEPT !.ended = TRUE]
    /\ last' = Label("end", "claude", "", 0, 0)
    /\ UNCHANGED <<poolVars, tokenVars, promptVars, openaiRequest, processor, claudeRequest, downstream>>

\* the bytes of an event as the pipe passes them on
Raw(e) == [data |-> "raw", event |-> e]

\* handleOpenAICompatibleRequest, providerResponse.data.pipe(res): the pipe's
\* own 'data' listener writes the chunk as it came
PipeData(events) ==
    /\ downstream.path = "openai"
    /\ downstream.piped
    /\ ~upstream.ended
    /\ events # <<>>
    /\ Len(upstream.sent) + Len(events) <= MaxEvents
    /\ response' = response \o [i \in 1..Len(events) |-> Raw(events[i])]
    /\ upstream' = [upstream EXCEPT !.sent = @ \o events]
    /\ last' = Label("pipe", "openai", "", Len(events), 0)
    /\ UNCHANGED <<poolVars, tokenVars, promptVars, openaiRequest, processor, claudeRequest, downstream>>

\* the pipe's 'end' listener: res.end()
PipeEnd ==
    /\ downstream.path = "openai"
    /\ downstream.piped
    /\ ~upstream.ended
    /\ upstream' = [upstream EXCEPT !.ended = TRUE]
    /\ last' = Label("pipeEnd", "openai", "", 0, 0)
    /\ UNCHANGED <<poolVars, tokenVars, promptVars, openaiRequest, processor, claudeRequest, response,
                   downstream>>

\* the caller goes away while the response streams. Neither handler listens
\* for 'close' on req or res: in handleClaudeRequest the 'data' and 'end'
\* listeners stay on the upstream stream; in handleOpenAICompatibleRequest the
\* pipe unpipes itself, which leaves the upstream stream paused and open
Disconnect ==
    /\ ~downstream.closed
    /\ ~upstream.ended
    /\ downstream' = [downstream EXCEPT !.closed = TRUE, !.piped = FALSE]
    /\ last' = Label("close", downstream.path, "", 0, 0)
    /\ UNCHANGED <<poolVars, tokenVars, promptVars, openaiRequest, processor, claudeRequest, upstream,
                   response>>

\* ---- services/thinkFilter.js: texts are sequences of characters, the word
\* think written as the one character "t"
OpenTag == <<"<", "t", ">">>
CloseTag == <<"<", "/", "t", ">">>

\* s.indexOf(pat) from position from on, counted from 1; 0 when there is none
IndexOf(s, pat, from) ==
    LET hits == {i \in from..(Len(s) - Len(pat) + 1) : SubSeq(s, i, i + Len(pat) - 1) = pat}
    IN IF hits = {} THEN 0 ELSE Min(hits)

\* text.replace(/<think>[\s\S]*?<\/think>/g, ''): each opening tag with the
\* first closing tag after it is removed, from left to right
RECURSIVE filterThinkTags(_)
filterThinkTags(text) ==
    LET start == IndexOf(text, OpenTag, 1)
        end == IF start = 0 THEN 0 ELSE IndexOf(text, CloseTag, start + Len(OpenTag))
    IN IF start = 0 \/ end = 0 THEN text
       ELSE SubSeq(text, 1, start - 1)
            \o filterThinkTags(SubSeq(text, end + Len(CloseTag), Len(text)))

NoProcessor ==
    [buffer |-> <<>>, isInsideThinkBlock |-> FALSE, fed |-> <<>>, output |-> <<>>,
     chunks |-> 0]

\* the while (true) loop of process, from the state st with output so far
RECURSIVE ProcessLoop(_, _)
ProcessLoop(st, output) ==
    IF st.isInsideThinkBlock
    THEN LET endTagIndex == IndexOf(st.buffer, CloseTag, 1)
         IN IF endTagIndex # 0
            THEN ProcessLoop([st EXCEPT !.isInsideThinkBlock = FALSE,
                                        !.buffer = SubSeq(@, endTagIndex + Len(CloseTag),
                                                          Len(@))],
                             output)
            ELSE [st |-> [st EXCEPT !.buffer = <<>>], output |-> output]
    ELSE LET startTagIndex == IndexOf(st.buffer, OpenTag, 1)
         IN IF startTagIndex # 0
            THEN ProcessLoop([st EXCEPT !.isInsideThinkBlock = TRUE,
                                        !.buffer = SubSeq(@, startTagIndex + Len(OpenTag),
                                                          Len(@))],
                             output \o SubSeq(st.buffer, 1, startTagIndex - 1))
            ELSE [st |-> [st EXCEPT !.buffer = <<>>], output |-> output \o st.buffer]

\* the chunks a stream may deliver: any stretch of a tag, or a letter
Stretches(s) == {SubSeq(s, i, j) : <<i, j>> \in {x \in (1..Len(s)) \X (1..Len(s)) : x[1] <= x[2]}}
ThinkChunks == Stretches(OpenTag) \cup Stretches(CloseTag) \cup {<<"x">>}

\* process(chunk)
Process(chunk) ==
    /\ processor.chunks < MaxChunks
    /\ LET r == ProcessLoop([processor EXCEPT !.buffer = @ \o chunk], <<>>)
       IN processor' = [r.st EXCEPT !.fed = @ \o chunk, !.output = @ \o r.output,
                                    !.chunks = @ + 1]
    /\ last' = Label("process", "", "", Len(chunk), 0)
    /\ UNCHANGED <<poolVars, tokenVars, promptVars, openaiRequest, claudeRequest, upstream,
                   response, downstream>>

\* ------------------------------------------------------------ specifications
InitCommon ==
    /\ providers = EmptyMap
    /\ ghost = EmptyMap
    /\ tests = {}
    /\ boot = "start"
    /\ admin = <<>>
    /\ reqs = EmptyBag
    /\ last = NoLabel
    /\ clock = 0
    /\ ticks = 0
    /\ tokens = EmptyMap
    /\ requests = EmptyMap
    /\ tokenBoot = "start"
    /\ admitted = EmptyMap
    /\ atLoad = EmptyMap
    /\ tokenOp = IdleTokenOp
    /\ tokenOpsDone = 0
    /\ calls = [c \in CallIds |-> IdleCall]
    /\ requestVariables = [c \in CallIds |-> EmptyMap]
    /\ claudeRequest = NoClaudeRequest
    /\ upstream = NoUpstream
    /\ response = <<>>
    /\ processor = NoProcessor

\* SpecPool: one built-in provider, any number of requests, no reload
InitPool ==
    /\ InitCommon
    /\ NoStream
    /\ NoPrompts
    /\ userTokens = EmptyMap
    /\ env = PoolEnvKeys
    /\ db = EmptyMap
    /\ reqBudget = 0
    /\ reloadBudget = 0
    /\ observe = FALSE

NextPool ==
    \/ BootInitialize
    \/ BootQueryDone
    \/ BootQueryFail
    \/ \E t \in tests, o \in TestOutcomes : TestDone(t, o)
    \/ StartRequest(Builtin)
    \/ \E x \in BagToSet(reqs), o \in PoolUpstreamOutcomes : CompleteRequest(x, o)

SpecPool == InitPool /\ [][NextPool]_vars

\* SpecRotation: one built-in provider with three keys, a bounded number of
\* requests, no reload
InitRotation ==
    /\ InitCommon
    /\ NoStream
    /\ NoPrompts
    /\ userTokens = EmptyMap
    /\ env = RotationEnvKeys
    /\ db = EmptyMap
    /\ reqBudget = RotationBudget
    /\ reloadBudget = 0
    /\ observe = TRUE

NextRotation ==
    \/ BootInitialize
    \/ BootQueryDone
    \/ BootQueryFail
    \/ \E t \in tests, o \in TestOutcomes : TestDone(t, o)
    \/ StartBudgetedRequest(Builtin)
    \/ \E x \in BagToSet(reqs), o \in UpstreamOutcomes : CompleteRequest(x, o)

SpecRotation == InitRotation /\ [][NextRotation]_vars

\* SpecReload: built-in and custom provider, admin saves and removes running
\* beside a bounded number of requests
InitReload ==
    /\ InitCommon
    /\ NoStream
    /\ NoPrompts
    /\ userTokens = EmptyMap
    /\ env = ReloadEnvKeys
    /\ db \in {EmptyMap, (Custom :> InitialRow)}
    /\ reqBudget = RequestBudget
    /\ reloadBudget = ReloadBudget
    /\ observe = FALSE

NextReload ==
    \/ BootInitialize
    \/ BootQueryDone
    \/ BootQueryFail
    \/ \E t \in tests, o \in ReloadTestOutcomes : TestDone(t, o)
    \/ \E p \in ProviderIds : StartBudgetedRequest(p)
    \/ \E x \in BagToSet(reqs), o \in ReloadUpstreamOutcomes : CompleteRequest(x, o)
    \/ \E f \in Forms : SaveUpdateBegin(f)
    \/ \E a \in DOMAIN admin : SaveUpdateWritten(a)
    \/ \E f \in Forms : SaveInsert(f)
    \/ Remove
    \/ \E a \in DOMAIN admin : QueryDone(a)
    \/ \E a \in DOMAIN admin : QueryFail(a)

SpecReload == InitReload /\ [][NextReload]_vars

\* SpecToken: one caller token as the table holds it at startup, requests
\* and sweeps at any time while the clock advances
InitToken ==
    /\ InitCommon
    /\ NoStream
    /\ NoPrompts
    /\ env = <<>>
    /\ db = EmptyMap
    /\ reqBudget = 0
    /\ reloadBudget = 0
    /\ observe = FALSE
    /\ userTokens \in [TokenIds -> TokenRows]

NextToken ==
    \/ \E d \in TickSteps : Tick(d)
    \/ TokenInitialize
    \/ TokenInitializeFail
    \/ \E ok \in BOOLEAN : TokenUpdateDone(ok)
    \/ \E t \in Callers : VerifyAndRateLimit(t)
    \/ CleanupRequestTimestamps

SpecToken == InitToken /\ [][NextToken]_vars

\* SpecTokenAdmin: the token table without expiries, the admin panel's token
\* calls (one at a time) and user requests; the clock stands still
InitTokenAdmin ==
    /\ InitCommon
    /\ NoStream
    /\ NoPrompts
    /\ env = <<>>
    /\ db = EmptyMap
    /\ reqBudget = 0
    /\ reloadBudget = 0
    /\ observe = FALSE
    /\ userTokens \in [TokenIds -> AdminForms]

NextTokenAdmin ==
    \/ TokenInitialize
    \/ \E t \in Callers \cup NewTokenIds : VerifyAndRateLimit(t)
    \/ \E kind \in {"update", "regenerate", "create"}, t \in TokenIds \cup NewTokenIds,
          nt \in NewTokenIds, form \in AdminForms : SaveTokenBegin(kind, t, nt, form)
    \/ \E t \in TokenIds \cup NewTokenIds : DeleteTokenBegin(t)
    \/ \E ok \in BOOLEAN : StoreApplies(ok)
    \/ TokenOpReturn

SpecTokenAdmin == InitTokenAdmin /\ [][NextTokenAdmin]_vars

\* ---- the rows and messages the prompt specifications draw from
Block(role, content, type, enabled, replacement) ==
    [role |-> role, content |-> content, block_type |-> type, is_enabled |-> enabled,
     replacement_command_id |-> replacement]
Command(tag, type, id, role, content) ==
    [command_tag |-> tag, command_type |-> type, command_id |-> id, block_role |-> role,
     block_content |-> content]

BlockAB == Block("system", <<Text("A"), Marker, Text("B")>>, "Standard", TRUE, "")
BlockPlain == Block("system", <<Text("you are "), CharPh, Ws>>, "Standard", TRUE, "")
BlockSet == Block("system", <<Text("one"), SetVar("x", "7")>>, "Standard", TRUE, "")
BlockGet == Block("user", <<Text("two"), GetVar("x")>>, "Standard", TRUE, "")
BlockOff == Block("system", <<Text("off")>>, "Standard", FALSE, "")
BlockPrefill == Block("assistant", <<>>, "Prefill", TRUE, "")
BlockCond == Block("assistant", <<Text("cond")>>, "Conditional Prefill", TRUE, "")
BlockUnparsed == Block("user", <<>>, "Unparsed Text Injection", TRUE, "")
BlockFallback == Block("system", <<UserInfoPh, Marker>>, "Prompting Fallback", TRUE, "jb")

CmdPF1 == Command("PF1", "Prefill", "", "assistant", <<Text("pf1")>>)
CmdPF2 == Command("PF2", "Prefill", "", "assistant", <<Text("pf2")>>)
CmdJB == Command("JB", "Prompt Injecting", "jb", "system", <<Text("jb"), Marker, Ws>>)
CommandRows == <<CmdPF1, CmdPF2, CmdJB>>

ProviderStructures ==
    {<<>>, <<BlockAB>>, <<BlockPlain>>, <<BlockSet, BlockGet>>, <<BlockOff>>,
     <<BlockPlain, BlockOff>>, <<BlockPrefill, BlockCond>>, <<BlockUnparsed, BlockFallback>>}
DefaultStructures == {<<>>, <<BlockGet>>, <<BlockOff>>}

Setup == Msg("system", <<Persona("Bob"), Ws, UserPersona("U"), Text("scenario"), Ws>>)
M1 == Msg("user", <<Text("m1")>>)
M2 == Msg("assistant", <<Text("m2")>>)
IncomingPlain == <<Setup, M1, M2>>
IncomingOnePrefill == <<Setup, Msg("user", <<Text("m1"), Tag("PF1")>>), M2>>
IncomingTwoPrefill == <<Setup, Msg("user", <<Tag("PF1"), Tag("PF2")>>), M2>>
IncomingThinking ==
    <<Msg("system", <<Text("scenario")>>), Msg("user", <<Text("m1"), Tag("JB")>>),
      Msg("assistant", <<Text("thought"), WTag, Ws, Text("m2")>>)>>
IncomingLists == {IncomingPlain, IncomingOnePrefill, IncomingTwoPrefill, IncomingThinking}
AssembleProviders == {Builtin, "other"}

\* SpecAssemble: buildFinalMessages on its own, two calls side by side, over
\* the structures of one provider and of 'default'
InitAssemble ==
    /\ InitCommon
    /\ NoStream
    /\ env = <<>>
    /\ db = EmptyMap
    /\ reqBudget = 0
    /\ reloadBudget = 0
    /\ observe = FALSE
    /\ userTokens = EmptyMap
    /\ blocks \in {(Builtin :> s) @@ ("default" :> d) :
                      <<s, d>> \in ProviderStructures \X DefaultStructures}
    /\ commands = CommandRows
    /\ openaiRequest = <<>>

NextAssemble ==
    \/ \E c \in CallIds, p \in AssembleProviders, m \in IncomingLists :
          BuildFinalMessages(c, p, m)
    \/ \E c \in CallIds : GetStructureDone(c)
    \/ \E c \in CallIds : GetDefaultStructureDone(c)
    \/ \E c \in CallIds : GetCommandDefinitionsDone(c)

SpecAssemble == InitAssemble /\ [][NextAssemble]_vars

\* ---- structures with command blocks and several history markers ----

BlockTwice ==
    Block("system", <<Text("A"), Marker, Text("B"), Marker, Text("C")>>, "Standard", TRUE, "")
BlockJail == Block("system", <<Text("ownjail")>>, "Jailbreak", TRUE, "")
BlockAdd == Block("system", <<Text("ownadd")>>, "Additional Commands", TRUE, "")
BlockPrefillOwn == Block("system", <<Text("ownprefill")>>, "Prefill", TRUE, "")
CmdJail == Command("JAIL", "Jailbreak", "", "user", <<Text("jail")>>)
CmdAdd == Command("ADD", "Additional Commands", "", "user", <<Text("add")>>)
CmdAdd2 == Command("ADD2", "Additional Commands", "", "assistant", <<Text("add2")>>)
BlockCommandRows == <<CmdPF1, CmdPF2, CmdJail, CmdAdd, CmdAdd2>>
CommandStructure == <<BlockJail, BlockAdd, BlockPrefillOwn, BlockCond>>
BlockStructures ==
    {<<BlockAB>>, <<BlockPlain>>, <<BlockUnparsed, BlockAB>>, <<BlockAB, BlockAB>>,
     <<BlockTwice>>, CommandStructure}
M3 == Msg("user", <<Text("m3")>>)
IncomingChat == <<Msg("user", <<Text("hello")>>), M2, M3>>
IncomingCommands ==
    <<Setup, Msg("user", <<Text("m1"), Tag("JAIL"), Tag("ADD2"), Tag("ADD")>>), M2>>
BlockIncomingLists == {IncomingChat, IncomingPlain, IncomingOnePrefill, IncomingCommands}

InitBlocks ==
    /\ InitCommon
    /\ NoStream
    /\ env = <<>>
    /\ db = EmptyMap
    /\ reqBudget = 0
    /\ reloadBudget = 0
    /\ observe = FALSE
    /\ userTokens = EmptyMap
    /\ blocks \in {(Builtin :> s) : s \in BlockStructures}
    /\ commands = BlockCommandRows
    /\ openaiRequest = <<>>

NextBlocks ==
    \/ \E c \in CallIds, m \in BlockIncomingLists : BuildFinalMessages(c, Builtin, m)
    \/ \E c \in CallIds : GetStructureDone(c)
    \/ \E c \in CallIds : GetCommandDefinitionsDone(c)

SpecBlocks == InitBlocks /\ [][NextBlocks]_vars

\* SpecRequest: the server from its start, with one built-in and one custom
\* provider, and two proxy requests
RequestStructures == {<<>>, <<BlockPlain>>}
RequestIncoming == {IncomingPlain, IncomingTwoPrefill}
RequestTestOutcomes == {200, 402}
RequestUpstreamOutcomes == {200, 401, 429}

InitRequest ==
    /\ InitCommon
    /\ NoStream
    /\ env = PoolEnvKeys
    /\ db = (Custom :> InitialRow)
    /\ reqBudget = 0
    /\ reloadBudget = 0
    /\ observe = FALSE
    /\ userTokens = EmptyMap
    /\ blocks \in {("default" :> s) : s \in RequestStructures}
    /\ commands = CommandRows
    /\ openaiRequest = <<>>

NextRequest ==
    \/ BootInitialize
    \/ BootQueryDone
    \/ \E t \in tests, o \in RequestTestOutcomes : TestDone(t, o)
    \/ \E c \in CallIds, p \in ProviderIds, m \in RequestIncoming, model \in RequestModels :
          ProxyRequest(c, p, m, model)
    \/ \E c \in CallIds : GetStructureDone(c)
    \/ \E c \in CallIds : GetDefaultStructureDone(c)
    \/ \E c \in CallIds : GetCommandDefinitionsDone(c)
    \/ \E c \in CallIds, o \in RequestUpstreamOutcomes : UpstreamDone(c, o)

SpecRequest == InitRequest /\ [][NextRequest]_vars

\* SpecClaude: the conversion for the Claude family applied to every list of
\* at most MaxMessages messages
ClaudeMessages ==
    {Msg(role, content) : role \in {"system", "user", "assistant"},
                          content \in {<<>>, <<Ws>>, <<Text("a")>>}}

InitClaude ==
    /\ InitCommon
    /\ NoStream
    /\ env = <<>>
    /\ db = EmptyMap
    /\ reqBudget = 0
    /\ reloadBudget = 0
    /\ observe = FALSE
    /\ userTokens = EmptyMap
    /\ blocks = EmptyMap
    /\ commands = <<>>
    /\ openaiRequest \in UNION {[1..n -> ClaudeMessages] : n \in 0..MaxMessages}

NextClaude == HandleClaudeRequest

SpecClaude == InitClaude /\ [][NextClaude]_vars

\* SpecStream: handleClaudeRequest after axios.post returned a stream
InitStream ==
    /\ InitCommon
    /\ NoStream
    /\ NoPrompts
    /\ env = <<>>
    /\ db = EmptyMap
    /\ reqBudget = 0
    /\ reloadBudget = 0
    /\ observe = FALSE
    /\ userTokens = EmptyMap

NextStream ==
    \/ \E n \in 0..MaxEvents, cutLast \in BOOLEAN :
          \E events \in [1..n -> StreamEvents] : OnData(events, cutLast)
    \/ OnEnd

SpecStream == InitStream /\ [][NextStream]_vars

\* SpecAbandon: a streamed response of either handler, the caller free to go
\* away at any point; every handler whose event is due runs in the end
InitAbandon ==
    /\ InitCommon
    /\ NoPrompts
    /\ env = <<>>
    /\ db = EmptyMap
    /\ reqBudget = 0
    /\ reloadBudget = 0
    /\ observe = FALSE
    /\ userTokens = EmptyMap
    /\ downstream \in {Downstream("claude"), Downstream("openai")}

NextAbandon ==
    \/ \E n \in 0..MaxEvents, cutLast \in BOOLEAN :
          \E events \in [1..n -> StreamEvents] : OnData(events, cutLast)
    \/ OnEnd
    \/ \E n \in 1..MaxEvents : \E events \in [1..n -> StreamEvents] : PipeData(events)
    \/ PipeEnd
    \/ Disconnect

SpecAbandon == InitAbandon /\ [][NextAbandon]_vars /\ WF_vars(NextAbandon)

\* SpecThink: one ThinkTagStreamProcessor fed at most MaxChunks chunks
InitThink ==
    /\ InitCommon
    /\ NoStream
    /\ NoPrompts
    /\ env = <<>>
    /\ db = EmptyMap
    /\ reqBudget = 0
    /\ reloadBudget = 0
    /\ observe = FALSE
    /\ userTokens = EmptyMap

NextThink == \E chunk \in ThinkChunks : Process(chunk)

SpecThink == InitThink /\ [][NextThink]_vars

\* SpecOverlap: one built-in key, requests without number, and two saves of
\* the custom provider that may run at the same time
OverlapForms == {f \in Forms : f.is_enabled}
OverlapTestOutcomes == {200}
OverlapUpstreamOutcomes == {401, 429}

InitOverlap ==
    /\ InitCommon
    /\ NoStream
    /\ NoPrompts
    /\ userTokens = EmptyMap
    /\ env = ReloadEnvKeys
    /\ db = (Custom :> InitialRow)
    /\ reqBudget = 0
    /\ reloadBudget = OverlapBudget
    /\ observe = TRUE

NextOverlap ==
    \/ BootInitialize
    \/ BootQueryDone
    \/ \E t \in tests, o \in OverlapTestOutcomes : TestDone(t, o)
    \/ StartRequest(Builtin)
    \/ \E x \in BagToSet(reqs), o \in OverlapUpstreamOutcomes : CompleteRequest(x, o)
    \/ \E f \in OverlapForms : SaveUpdateBegin(f)
    \/ \E a \in DOMAIN admin : SaveUpdateWritten(a)
    \/ \E a \in DOMAIN admin : QueryDone(a)

SpecOverlap == InitOverlap /\ [][NextOverlap]_vars

\* ------------------------------------------------------------------- claims
KeysOf(p) == 1..Len(providers[p].keys)
AllActive(pd) == \A i \in 1..Len(pd.keys) : pd.keys[i].status = "active"
AllUnchecked(pd) == \A i \in 1..Len(pd.keys) : pd.keys[i].status = "unchecked"

\* C1 -- Round-robin fairness: while every credential of a provider is active
\* and no status changed in between, the latest getRotatingKey calls (made by
\* requests that may all still be in flight) returned indexes that follow each
\* other cyclically, and N of them are the N credentials, each exactly once.
C1_RoundRobin ==
    \A p \in DOMAIN providers :
        LET N == Len(providers[p].keys)
            picks == ghost[p].picks
        IN AllActive(providers[p]) =>
              /\ \A j \in 1..(Len(picks) - 1) : picks[j + 1] = (picks[j] + 1) % N
              /\ Len(picks) = N => {picks[j] : j \in 1..N} = 0..(N - 1)
              /\ Len(picks) > 0 => providers[p].currentIndex = (picks[Len(picks)] + 1) % N

\* three picks in a row that started at a cursor other than 0, the requests
\* that made them still in flight together
C1_Witness ==
    /\ Builtin \in DOMAIN providers
    /\ AllActive(providers[Builtin])
    /\ Len(ghost[Builtin].picks) = 3
    /\ ghost[Builtin].picks[1] # 0
    /\ BagCardinality(reqs) >= 2

CheckInProgress ==
    \/ boot \in {"query", "checking"}
    \/ \E a \in DOMAIN admin : admin[a].pc \in {"query", "checking"}

\* C2 (as amended) -- getRotatingKey returns only a credential whose status is
\* active when it is selected, also while health checks are still in flight;
\* while every credential of the provider is unchecked the request is
\* answered 503 (not found) at once.
C2_OnlyActiveSelected ==
    [][/\ last'.op = "select" =>
            providers[last'.p].keys[last'.outcome + 1].status = "active"
       /\ (last'.op \in {"select", "request"} /\ last'.p \in DOMAIN providers
            /\ AllUnchecked(providers[last'.p])) =>
            (last'.op = "request" /\ last'.code = 503)]_vars

\* a key is selected while an admin save is still waiting for its checks
C2_Witness ==
    /\ last.op = "select"
    /\ \E a \in DOMAIN admin : admin[a].pc = "checking"

\* C2 as stated: between initialize and the completion of checkAllKeys every
\* credential is unchecked, so that every selection made in between returns
\* not-found.
C2_Original ==
    (CheckInProgress /\ last.op \in {"select", "request"}) => last.op = "request"

\* C3 -- Deactivation threshold: the recordFailure call that is the 20th in a
\* row on an active credential (no recordSuccess in between) leaves it revoked;
\* one that is at most the 19th leaves it active.
C3_Threshold ==
    [][\A p \in (DOMAIN providers) \cap (DOMAIN providers') :
         \A i \in 1..Len(providers[p].keys) :
            (/\ Len(providers'[p].keys) = Len(providers[p].keys)
             /\ providers[p].keys[i].status = "active"
             /\ ghost'[p].calls[i].streak = ghost[p].calls[i].streak + 1) =>
                /\ ghost'[p].calls[i].streak = 20 => providers'[p].keys[i].status = "revoked"
                /\ ghost'[p].calls[i].streak <= 19 => providers'[p].keys[i].status = "active"]_vars

\* the 20th failure in a row has just revoked a credential
C3_Witness ==
    /\ last.op = "complete" /\ last.outcome = 429
    /\ \E i \in KeysOf(last.p) :
          /\ providers[last.p].keys[i].value = last.key
          /\ ghost[last.p].calls[i].streak = 20
          /\ providers[last.p].keys[i].status = "revoked"

\* the step is a recordFailure call on the first credential of value last'.key
\* and the call before it on that credential was a recordSuccess
FailureAfterSuccess(i) ==
    /\ last'.op = "complete" /\ last'.outcome = 429
    /\ last'.p \in DOMAIN providers
    /\ i = FindKey(providers, last'.p, last'.key)
    /\ i # 0
    /\ ghost[last'.p].calls[i].lastCall = "success"

\* C4 -- Success resets the failure count: the counter is 0 after a
\* recordSuccess, whatever it was before; a single recordFailure that follows
\* never changes the credential's status and leaves the counter of an active
\* credential at 1 (recordFailure counts on an active credential only, so any
\* other keeps its 0).
C4_SuccessResets ==
    [][\A i \in 0..3 : FailureAfterSuccess(i) =>
         LET before == providers[last'.p].keys[i]
             after == providers'[last'.p].keys[i]
         IN /\ before.consecutiveFails = 0
            /\ after.status = before.status
            /\ after.consecutiveFails = IF before.status = "active" THEN 1 ELSE 0]_vars

\* a failure followed a success on a credential that is active: counter 1
C4_Witness ==
    /\ last.op = "complete" /\ last.outcome = 429
    /\ \E i \in KeysOf(last.p) :
          /\ ghost[last.p].calls[i].lastCall = "fas"
          /\ providers[last.p].keys[i].value = last.key
          /\ providers[last.p].keys[i].status = "active"
          /\ providers[last.p].keys[i].consecutiveFails = 1

\* every credential but the first of value v of provider p is as before
OthersUnchanged(p, v) ==
    /\ DOMAIN providers' = DOMAIN providers
    /\ \A q \in DOMAIN providers :
          /\ providers'[q].currentIndex = providers[q].currentIndex
          /\ Len(providers'[q].keys) = Len(providers[q].keys)
          /\ \A i \in 1..Len(providers[q].keys) :
                (q # p \/ i # FindKey(providers, p, v)) =>
                    providers'[q].keys[i] = providers[q].keys[i]

\* C5 -- handleProxyError by HTTP status: 402 turns the used (active)
\* credential over_quota, 401 and 403 turn it revoked at once, 429 adds 1 to
\* its counter and leaves it active below the threshold; every other failure
\* (other status, no response, user-input error) changes no credential; no
\* failure touches a credential other than the used one, and none changes a
\* credential that is no longer active.
C5_ErrorReaction ==
    [][(last'.op = "complete" /\ last'.outcome # 200) =>
         LET p == last'.p
             v == last'.key
             o == last'.outcome
             st == StatusOf(providers, p, v)
             n == FailsOf(providers, p, v)
         IN /\ OthersUnchanged(p, v)
            /\ (st # "active" \/ o \notin {401, 402, 403, 429}) => providers' = providers
            /\ (st = "active" /\ o = 402) =>
                  /\ StatusOf(providers', p, v) = "over_quota"
                  /\ FailsOf(providers', p, v) = n
            /\ (st = "active" /\ o \in {401, 403}) =>
                  /\ StatusOf(providers', p, v) = "revoked"
                  /\ FailsOf(providers', p, v) = n
            /\ (st = "active" /\ o = 429) =>
                  /\ FailsOf(providers', p, v) = n + 1
                  /\ n + 1 < 20 => StatusOf(providers', p, v) = "active"]_vars

\* a 402 has just turned the used credential over_quota
C5_Witness ==
    /\ last.op = "complete" /\ last.outcome = 402
    /\ StatusOf(providers, last.p, last.key) = "over_quota"

\* C6 -- Every credential is health-checked after a reload: once a save or a
\* remove has returned from keyManager.initialize and no check is in flight
\* any more, no credential is left unchecked.
C6_CheckedAfterReload ==
    (/\ last.op \in {"reloaded", "saved"}
     /\ tests = {}
     /\ \A a \in DOMAIN admin : admin[a].pc = "idle") =>
        \A p \in DOMAIN providers : \A i \in KeysOf(p) :
            providers[p].keys[i].status # "unchecked"

\* the providers initialize builds from the configuration as it is
ConfiguredProviders ==
    (IF Len(env) > 0 THEN {Builtin} ELSE {})
        \cup {p \in EnabledRows(db) : Len(db[p].api_keys) > 0}

\* C7 -- A reload replaces the map atomically: a request is answered 404
\* (provider not in the map) during a keyManager.initialize only when the
\* provider is missing from the old map or from the new configuration.
C7_AtomicReload ==
    (last.op = "request" /\ last.code = 404) =>
        \A a \in DOMAIN admin :
            admin[a].pc = "query" =>
                (last.p \notin admin[a].old \/ last.p \notin ConfiguredProviders)

\* the step is a verifyAndRateLimit call with token t, which state.tokens holds
\* enabled and not past its expiry
LiveVerify(t) ==
    /\ last'.op = "verify" /\ last'.p = t
    /\ tokens[t].is_enabled
    /\ ~\E e \in tokens[t].expires_at : e < clock

\* C8 -- Rate limiter window: a call on a token with RPM=3 is refused with 429
\* exactly when it comes less than 60 seconds after the first of the three
\* latest admitted calls; with fewer than three admitted calls, or 60 seconds
\* or more after the first of them, it is admitted.
C8_RateWindow ==
    [][\A t \in DOMAIN tokens :
         (LiveVerify(t) /\ tokens[t].rpm = 3) =>
            LET log == admitted[t]
                n == Len(log)
            IN IF n < 3 \/ clock - log[n - 2] >= 60000
               THEN last'.code = 200 /\ admitted'[t] = Append(log, clock)
               ELSE last'.code = 429 /\ admitted'[t] = log]_vars

\* three calls admitted within a minute, and a fourth admitted exactly 60
\* seconds after the first
C8_Witness ==
    /\ last.op = "verify" /\ last.code = 200
    /\ last.p \in DOMAIN tokens
    /\ tokens[last.p].rpm = 3
    /\ Len(admitted[last.p]) = 4
    /\ admitted[last.p][3] - admitted[last.p][1] < 60000
    /\ admitted[last.p][4] - admitted[last.p][1] = 60000

\* C9 -- Atomic admission: whatever the interleaving of verifyAndRateLimit
\* calls and sweeps, the admissions of a token that fall in one 60-second
\* window never exceed its RPM: an admission and the RPM-th after it are at
\* least 60 seconds apart.
C9_AdmissionBound ==
    \A t \in (DOMAIN admitted) \cap (DOMAIN tokens) :
        \A i \in 1..(Len(admitted[t]) - tokens[t].rpm) :
            admitted[t][i + tokens[t].rpm] - admitted[t][i] >= 60000

\* a sweep has run over a full window of a token that had older admissions
C9_Witness ==
    /\ last.op = "sweep"
    /\ \E t \in DOMAIN requests :
          /\ Len(requests[t]) = tokens[t].rpm
          /\ Len(admitted[t]) > tokens[t].rpm

\* C10 (as amended) -- A loaded token whose expiry is in the past at the time
\* of the call is refused with 403 and never counted: as expired when
\* initialize loaded it enabled and not yet expired, as disabled when it was
\* already expired at load time (initialize marks it disabled) or disabled in
\* the store.
C10_ExpiredRejected ==
    [][\A t \in DOMAIN tokens :
         (/\ last'.op = "verify" /\ last'.p = t
          /\ \E e \in tokens[t].expires_at : e < clock) =>
            /\ last'.code = 403
            /\ last'.key = (IF atLoad[t] = "valid" THEN "expired" ELSE "disabled")
            /\ UNCHANGED <<requests, admitted>>]_vars

\* a token that the store held enabled and that was expired at load time is
\* refused as disabled
C10_Witness ==
    /\ last.op = "verify" /\ last.key = "disabled"
    /\ last.p \in DOMAIN atLoad
    /\ atLoad[last.p] = "expired"

\* C10 as stated: a token that the store held enabled and whose expiry is in
\* the past at the time of the call is refused as expired, whether it expired
\* before or after initialize loaded it.
C10_Original ==
    (/\ last.op = "verify"
     /\ last.p \in DOMAIN tokens
     /\ atLoad[last.p] # "disabled"
     /\ \E e \in tokens[last.p].expires_at : e < clock) =>
        last.key = "expired"

\* the timestamps state.requests holds for token t that are less than 60
\* seconds old
InWindow(t) ==
    IF t \in DOMAIN requests
    THEN {k \in 1..Len(requests[t]) : clock - requests[t][k] < 60000}
    ELSE {}

\* C11 -- verifyAndRateLimit tests in a fixed order and answers with the first
\* test that fails: unknown token -> invalid (401); enabled flag false ->
\* disabled (403); expiry in the past -> expired (403); as many timestamps in
\* the trailing 60 seconds as the RPM, or more -> rate limited (429, the
\* message carrying the RPM); otherwise the current time is appended to the
\* token's window and the call is admitted. A refused call changes nothing.
C11_CheckOrder ==
    [][\A t \in Callers :
         (last'.op = "verify" /\ last'.p = t) =>
            IF t \notin DOMAIN tokens
            THEN last'.key = "invalid" /\ last'.code = 401 /\ requests' = requests
            ELSE IF ~tokens[t].is_enabled
            THEN last'.key = "disabled" /\ last'.code = 403 /\ requests' = requests
            ELSE IF \E e \in tokens[t].expires_at : e < clock
            THEN last'.key = "expired" /\ last'.code = 403 /\ requests' = requests
            ELSE IF Cardinality(InWindow(t)) >= tokens[t].rpm
            THEN /\ last'.key = "limited" /\ last'.code = 429
                 /\ last'.outcome = tokens[t].rpm
                 /\ requests' = requests
            ELSE /\ last'.key = "ok" /\ last'.code = 200
                 /\ t \in DOMAIN requests'
                 /\ requests'[t][Len(requests'[t])] = clock
                 /\ Len(requests'[t]) = Cardinality(InWindow(t)) + 1]_vars

\* a token that is both disabled and past its expiry is refused as disabled
C11_Witness ==
    /\ last.op = "verify" /\ last.key = "disabled"
    /\ last.p \in DOMAIN tokens
    /\ \E e \in tokens[last.p].expires_at : e < clock

\* C12 -- create, update, regenerate and delete of a token change the stored
\* row and state.tokens as one step: whenever verifyAndRateLimit runs, also
\* beside an admin call in progress or after one whose statement failed,
\* state.tokens holds exactly the rows of the table.
C12_MemoryMatchesStore ==
    (tokenBoot = "ready" /\ last.op = "verify") => tokens = userTokens

\* ---- requests and prompt assembly
NoActiveKey(provs, p) ==
    p \in DOMAIN provs /\ \A i \in 1..Len(provs[p].keys) : provs[p].keys[i].status # "active"

\* status and consecutive-failure counter of every credential
Health(provs) ==
    [p \in DOMAIN provs |->
        [i \in 1..Len(provs[p].keys) |->
            <<provs[p].keys[i].status, provs[p].keys[i].consecutiveFails>>]]

\* C13 -- a proxyRequest for a provider none of whose credentials is active
\* is answered 503 in its first synchronous stretch: the call ends there
\* having loaded no structure, looked up no command and called no upstream;
\* and no call answered 503 has ever done any of these.
C13_CheapFailure ==
    [][\A c \in CallIds :
         /\ (calls[c].pc = "idle" /\ calls'[c].via = "proxy"
             /\ NoActiveKey(providers, calls'[c].provider))
            => (calls'[c].pc = "done" /\ calls'[c].code = 503 /\ calls'[c].steps = <<>>)
         /\ calls'[c].code = 503 => (calls'[c].pc = "done" /\ calls'[c].steps = <<>>)]_vars

\* a request answered 503 beside a request that is at its upstream call
C13_Witness ==
    \E c, d \in CallIds :
        /\ calls[c].code = 503 /\ NoActiveKey(providers, calls[c].provider)
        /\ calls[d].pc = "upstream"

\* C14 -- a request that ends with the multiple-Prefill UserInputError, or
\* with the rejection of a model name other than the enforced one, is
\* answered 400 without an upstream call, and neither that step nor any
\* earlier step of the request changes the status or the consecutive-failure
\* counter of any credential.
C14_CallerErrors ==
    [][/\ \A c \in CallIds :
            (calls[c].pc \in {"getStructure", "getDefaultStructure", "getCommandDefinitions"}
             /\ calls'[c].pc = "done" /\ calls'[c].via = "proxy")
            => /\ calls'[c].code = 400
               /\ "axios.post" \notin {calls'[c].steps[i] : i \in 1..Len(calls'[c].steps)}
               /\ Health(providers') = Health(providers)
               /\ \/ Cardinality(calls'[c].result.tags) > 1
                  \/ (calls'[c].provider = Custom /\ calls'[c].model # EnforcedModel)
       /\ last'.op \in {"proxyRequest", "getStructure", "getDefaultStructure",
                        "getCommandDefinitions"}
            => Health(providers') = Health(providers)]_vars

\* one request refused for its two Prefill tags and one for its model name,
\* each holding an active credential
C14_Witness ==
    \E c, d \in CallIds :
        /\ calls[c].code = 400 /\ calls[c].result.error /\ calls[c].key # ""
        /\ calls[d].code = 400 /\ ~calls[d].result.error /\ calls[d].key # ""
        /\ calls[d].model # EnforcedModel

\* the calls of buildFinalMessages that have ended
Returned(c) == calls[c].pc = "done" /\ calls[c].via = "direct"

\* the definitions the tags of call c's messages resolve to
ResolvedOf(c) == getCommandDefinitions(commands, parseCommandsFromMessages(calls[c].incoming))

\* C15 -- whatever the structure of the provider: a call whose tags resolve to
\* more than one Prefill definition fails with a UserInputError that names
\* those tags, and a call whose tags resolve to exactly one succeeds.
C15_PrefillConflict ==
    \A c \in CallIds :
        Returned(c) =>
            /\ PrefillCount(ResolvedOf(c)) > 1
                 => (calls[c].result.error /\ calls[c].result.tags = PrefillTags(ResolvedOf(c)))
            /\ PrefillCount(ResolvedOf(c)) = 1 => ~calls[c].result.error

\* what the input messages hold, read off the message lists themselves
ExpectedName(incoming) == IF incoming = IncomingThinking THEN "Character" ELSE "Bob"
ExpectedTags(incoming) ==
    IF incoming = IncomingPlain THEN {}
    ELSE IF incoming = IncomingOnePrefill THEN {"PF1"}
    ELSE IF incoming = IncomingTwoPrefill THEN {"PF1", "PF2"}
    ELSE {"JB"}
ExpectedHistory(incoming) ==
    IF incoming = IncomingThinking
    THEN <<Msg("user", <<Text("m1"), Tag("JB")>>), Msg("assistant", <<Text("m2")>>)>>
    ELSE Tail(incoming)

\* C16 -- with no block for the provider and none for 'default',
\* buildFinalMessages returns the input messages as they came, with the
\* character name and the set of command tags parsed from them.
C16_PassThrough ==
    \A c \in CallIds :
        (Returned(c) /\ getStructure(blocks, calls[c].provider) = <<>>
         /\ getStructure(blocks, "default") = <<>>)
        => /\ ~calls[c].result.error
           /\ calls[c].result.finalMessages = calls[c].incoming
           /\ calls[c].result.characterName = ExpectedName(calls[c].incoming)
           /\ calls[c].result.commandTags = ExpectedTags(calls[c].incoming)

\* a pass-through of messages whose history holds a <w>
C16_Witness ==
    \E c \in CallIds :
        /\ Returned(c) /\ calls[c].incoming = IncomingThinking
        /\ calls[c].structure = <<>> /\ "default" \in DOMAIN blocks
        /\ blocks["default"] = <<>>
        /\ calls[c].result.finalMessages = IncomingThinking

StructureHasMarker(structure) ==
    \E i \in 1..Len(structure) : FirstOf(structure[i].content, "marker") # 0

\* the last n elements of s
LastN(s, n) == SubSeq(s, Len(s) - n + 1, Len(s))

\* C17 -- the one block A<<CHAT_HISTORY>>B with the history [m1, m2] gives
\* [A, m1, m2, B], A and B under the block's role; a structure none of whose
\* blocks holds the marker gives its block messages and then the history, in
\* order, at the very end.
C17_HistoryPlacement ==
    \A c \in CallIds :
        (Returned(c) /\ ~calls[c].result.error /\ calls[c].structure # <<>>)
        => /\ calls[c].structure = <<BlockAB>>
              => calls[c].result.finalMessages =
                   <<Msg("system", <<Text("A")>>)>> \o ExpectedHistory(calls[c].incoming)
                   \o <<Msg("system", <<Text("B")>>)>>
           /\ ~StructureHasMarker(calls[c].structure)
              => /\ Len(calls[c].result.finalMessages) >= 2
                 /\ LastN(calls[c].result.finalMessages, 2) = ExpectedHistory(calls[c].incoming)
                 /\ \A i \in 1..Len(calls[c].result.finalMessages) - 2 :
                       calls[c].result.finalMessages[i] \notin
                          {ExpectedHistory(calls[c].incoming)[1],
                           ExpectedHistory(calls[c].incoming)[2]}
           /\ (calls[c].structure = <<BlockPlain>> /\ calls[c].incoming = IncomingPlain)
              => calls[c].result.finalMessages =
                   <<Msg("system", <<Text("you are "), Text("Bob"), Ws>>), M1, M2>>

\* both cases have happened: [A, m1, m2, B] and, for the structure of
\* 'default', [block, m1, m2]
C17_Witness ==
    \E c, d \in CallIds :
        /\ Returned(c) /\ calls[c].structure = <<BlockAB>> /\ calls[c].incoming = IncomingPlain
        /\ calls[c].result.finalMessages =
             <<Msg("system", <<Text("A")>>), M1, M2, Msg("system", <<Text("B")>>)>>
        /\ Returned(d) /\ calls[d].structure = <<BlockGet>>
        /\ calls[d].incoming = IncomingPlain
        /\ calls[d].result.finalMessages = <<Msg("user", <<Text("two")>>), M1, M2>>

\* the rows of a structure whose enabled flag is set
EnabledOnly(structure) == SelectSeq(structure, LAMBDA b : b.is_enabled)

\* the structure of provider p when only enabled blocks count
EnabledStructure(p) ==
    IF EnabledOnly(getStructure(blocks, p)) = <<>> /\ p # "default"
    THEN EnabledOnly(getStructure(blocks, "default"))
    ELSE EnabledOnly(getStructure(blocks, p))

\* C18 -- only enabled blocks take part: what buildFinalMessages returns is
\* what it returns for the enabled blocks alone, in the messages it builds
\* and in the choice between the provider's structure, the structure of
\* 'default' and the pass-through.
C18_EnabledOnly ==
    \A c \in CallIds :
        Returned(c) =>
            calls[c].result =
                Assemble(EnabledStructure(calls[c].provider), ResolvedOf(c),
                         calls[c].incoming, EmptyMap)

\* C19 -- the macro variables belong to one call: with {{setglobalvar::x::7}}
\* in block 1, {{getglobalvar::x}} in block 2 of the same call becomes 7; a
\* call whose structure only reads x gets the empty string, whatever other
\* calls, earlier or side by side, have set; and each call returns what it
\* returns when it runs alone.
C19_MacroScope ==
    \A c \in CallIds :
        (Returned(c) /\ ~calls[c].result.error)
        => /\ calls[c].structure = <<BlockSet, BlockGet>>
              => /\ calls[c].result.finalMessages[1] = Msg("system", <<Text("one")>>)
                 /\ calls[c].result.finalMessages[2] = Msg("user", <<Text("two"), Text("7")>>)
           /\ calls[c].structure = <<BlockGet>>
              => calls[c].result.finalMessages[1] = Msg("user", <<Text("two")>>)
           /\ calls[c].result =
                Assemble(calls[c].structure, calls[c].defs, calls[c].incoming, EmptyMap)

\* a call that read x unset after the other call had set it to 7
C19_Witness ==
    \E c, d \in CallIds :
        /\ Returned(c) /\ calls[c].structure = <<BlockSet, BlockGet>>
        /\ "x" \in DOMAIN requestVariables[c] /\ requestVariables[c]["x"] = "7"
        /\ Returned(d) /\ calls[d].structure = <<BlockGet>>
        /\ calls[d].result.finalMessages[1] = Msg("user", <<Text("two")>>)
        /\ last.op \in {"getStructure", "getDefaultStructure", "getCommandDefinitions"}
        /\ last.key = d

\* C20 -- the list sent to a Claude-family upstream never has two
\* neighbouring messages of the same role (such messages having been merged
\* into one) and never a message whose content is empty.
C20_Alternation ==
    claudeRequest.sent =>
        /\ \A i \in 1..Len(claudeRequest.messages) - 1 :
              claudeRequest.messages[i].role # claudeRequest.messages[i + 1].role
        /\ \A i \in 1..Len(claudeRequest.messages) :
              ~Blank(claudeRequest.messages[i].content)

\* the number of system messages at the head of the list, before the first
\* message of another role
RECURSIVE LeadingSystems(_)
LeadingSystems(messages) ==
    IF messages = <<>> \/ Head(messages).role # "system" THEN 0
    ELSE 1 + LeadingSystems(Tail(messages))

\* the pieces of all the messages of a list, added up
RECURSIVE PiecesIn(_)
PiecesIn(messages) ==
    IF messages = <<>> THEN 0 ELSE Len(Head(messages).content) + PiecesIn(Tail(messages))

\* the system messages after the conversation has started that a user
\* message follows
FoldedSystems(messages) ==
    SelectSeq([i \in 1..Len(messages) |->
                  IF /\ messages[i].role = "system" /\ i > LeadingSystems(messages)
                     /\ \E j \in i + 1..Len(messages) : messages[j].role = "user"
                  THEN messages[i] ELSE Msg("system", <<>>)],
              LAMBDA m : m.content # <<>>)

\* C21 -- Claude family: the system messages before the first non-system
\* message are all joined into the system channel, none lost and nothing else
\* added; a system message after the conversation has started goes into the
\* content of the next user message, not into the system channel.
C21_SystemChannel ==
    claudeRequest.sent =>
        LET leading == SubSeq(openaiRequest, 1, LeadingSystems(openaiRequest))
            texts(s) == Len(SelectSeq(s, LAMBDA x : x.k = "text"))
            textsIn(ms) == PiecesIn([i \in 1..Len(ms) |->
                              Msg(ms[i].role, SelectSeq(ms[i].content,
                                                        LAMBDA x : x.k = "text"))])
        IN /\ texts(claudeRequest.system) = textsIn(leading)
           /\ textsIn(claudeRequest.messages) >=
                textsIn(SelectSeq(openaiRequest, LAMBDA m : m.role = "user"))
                + textsIn(FoldedSystems(openaiRequest))

DeactivationReasons == {"revoked", "over_quota"}

\* C22 -- deactivateKey sets the status to the given reason only when the
\* credential is active, and changes nothing else; applying it twice is the
\* same as applying it once, and applying it with any reason to a credential
\* that is over_quota, revoked or unchecked leaves the pool as it is.
C22_DeactivateOnce ==
    \A p \in DOMAIN providers : \A i \in KeysOf(p) : \A r1, r2 \in DeactivationReasons :
        LET v == providers[p].keys[i].value
            once == DeactivateKey(providers, p, v, r1)
        IN /\ providers[p].keys[i].status = "active" =>
                once = [providers EXCEPT ![p].keys[i].status = r1]
           /\ providers[p].keys[i].status # "active" => once = providers
           /\ DeactivateKey(once, p, v, r1) = once
           /\ DeactivateKey(once, p, v, r2) = once

\* a second request on the same credential failed with 402 after the first
\* had it revoked: the status stays revoked
C22_Witness ==
    /\ last.op = "complete" /\ last.outcome = 402
    /\ StatusOf(providers, last.p, last.key) = "revoked"

\* C23 -- recordFailure (a 429) on a credential that is not active changes
\* neither its counter nor its status; recordSuccess and recordFailure for a
\* provider or a credential value that is not in the pool (removed by a
\* reload while the request was in flight) change no credential.
C23_NoEffectOffPool ==
    [][(last'.op = "complete" /\ last'.outcome \in {200, 429}) =>
         LET st == StatusOf(providers, last'.p, last'.key)
         IN /\ (last'.outcome = 429 /\ st # "active") => providers' = providers
            /\ st = "absent" =>
                  /\ providers' = providers
                  /\ RecordSuccess(providers, last'.p, last'.key) = providers
                  /\ RecordFailure(providers, last'.p, last'.key) = providers]_vars

\* a 429 came back for a credential that a reload had put back to unchecked
\* or that a health check had revoked meanwhile
C23_Witness ==
    /\ last.op = "complete" /\ last.outcome = 429
    /\ StatusOf(providers, last.p, last.key) \in {"unchecked", "revoked"}

\* C24 -- in every reachable state the rotation cursor of every provider is
\* an index of its credential list (0 .. length - 1), whatever selections,
\* deactivations and reloads that change the length of the list came before.
C24_CursorInRange ==
    \A p \in DOMAIN providers :
        providers[p].currentIndex \in 0..(Len(providers[p].keys) - 1)

\* a save grew the custom provider's list from one key to two and a request
\* then selected the first of them
C24_Witness ==
    /\ Len(admin) > 0
    /\ Custom \in DOMAIN providers
    /\ Len(providers[Custom].keys) = 2
    /\ providers[Custom].currentIndex = 1
    /\ last.op = "select" /\ last.p = Custom

\* C25 -- a health check that succeeds sets the credential active; one that
\* fails with 401 or 403 sets it revoked, with 402 over_quota, and with any
\* other failure (other status, timeout or network error: outcome 0) revoked;
\* no outcome leaves the tested credential unchecked.
C25_CheckVerdict ==
    [][\A t \in tests : \A o \in TestOutcomes :
          TestDone(t, o) =>
              LET status == providers'[t.p].keys[t.i].status
              IN /\ status # "unchecked"
                 /\ o = 200 => status = "active"
                 /\ o \in {401, 403} => status = "revoked"
                 /\ o = 402 => status = "over_quota"
                 /\ o \notin {200, 401, 402, 403} => status = "revoked"]_vars

\* the last check of the boot has returned and the pool holds an active, a
\* revoked and an over_quota credential
C25_Witness ==
    /\ last.op = "listen"
    /\ \E p \in DOMAIN providers :
          {providers[p].keys[i].status : i \in KeysOf(p)} = {"active", "revoked", "over_quota"}

\* C26 -- after each sweep the list of every token in the request map holds
\* only timestamps younger than 60 seconds (all of those it held before, and
\* no other), and no token is left in the map with an empty list; so a list
\* is never longer than the admissions of its token in the last window.
C26_SweepResult ==
    [][last'.op = "sweep" =>
         /\ \A t \in DOMAIN requests' :
               /\ Len(requests'[t]) > 0
               /\ \A k \in 1..Len(requests'[t]) : clock' - requests'[t][k] < 60000
               /\ t \in DOMAIN requests
               /\ requests'[t] = SelectSeq(requests[t], LAMBDA ts : clock - ts < 60000)
               /\ t \in DOMAIN admitted
               /\ Len(requests'[t]) <=
                     Cardinality({i \in 1..Len(admitted[t]) : clock - admitted[t][i] < 60000})
         /\ \A t \in DOMAIN requests :
               (\E k \in 1..Len(requests[t]) : clock - requests[t][k] < 60000)
                   => t \in DOMAIN requests']_vars

\* a sweep has removed the entry of a token whose admissions are all older
\* than the window
C26_Witness ==
    /\ last.op = "sweep"
    /\ \E t \in DOMAIN admitted : Len(admitted[t]) > 0 /\ t \notin DOMAIN requests

\* the requests for the custom provider, which enforces a model name, that
\* ask for another model
WrongModel(c) ==
    /\ calls[c].via = "proxy" /\ calls[c].provider = Custom
    /\ calls[c].provider \in DOMAIN providers
    /\ calls[c].model # EnforcedModel

UpstreamCalled(c) == "axios.post" \in {calls[c].steps[i] : i \in 1..Len(calls[c].steps)}

ForwardedFor(e) ==
    IF e.type = "content_block_delta" /\ e.delta = "text_delta" THEN <<Chunk(e.text, "")>>
    ELSE IF e.type = "message_delta" /\ e.stop # "" THEN <<Chunk("", e.stop)>>
    ELSE <<>>

RECURSIVE ForwardedAll(_)
ForwardedAll(events) ==
    IF events = <<>> THEN <<>> ELSE ForwardedFor(Head(events)) \o ForwardedAll(Tail(events))

\* C28 -- in a messages-style stream every content-delta event the upstream
\* has sent is forwarded as one chunk with that delta's text, every
\* message-delta event with a stop reason as one chunk with that finish
\* reason, in the order sent, and no other event gives a chunk; [DONE] is
\* written exactly once, after all the chunks, when the upstream stream ends.
C28_StreamForwarded ==
    /\ (~upstream.ended /\ ~upstream.cut) => response = ForwardedAll(upstream.sent)
    /\ upstream.ended => response = Append(ForwardedAll(upstream.sent), Done)

\* C29 -- in every reachable state a credential whose status is active has a
\* consecutive-failure counter below 20, also after a health check has set a
\* deactivated credential back to active.
C29_ActiveBelowThreshold ==
    \A p \in DOMAIN providers : \A i \in KeysOf(p) :
        providers[p].keys[i].status = "active" => providers[p].keys[i].consecutiveFails < 20

\* C30 -- a credential that the request path has deactivated (401, 403, 402
\* or the 20th counted failure) is not active again, and so not selected
\* again, as long as the pool is not rebuilt: neither the request path nor a
\* health check that was in flight at the deactivation puts it back.
C30_StaysDeactivated ==
    \A p \in DOMAIN providers : \A i \in ghost[p].deactivated :
        providers[p].keys[i].status # "active"

\* the texts a content holds
TextsIn(content) == {content[i].a : i \in {j \in 1..Len(content) : content[j].k = "text"}}

\* output message o carries the text of inbound message m
Carries(o, m) == TextsIn(m.content) # {} /\ TextsIn(m.content) \subseteq TextsIn(o.content)

\* every message of msgs is carried by a message of out, in the order of msgs
RECURSIVE Embedded(_, _)
Embedded(msgs, out) ==
    IF msgs = <<>> THEN TRUE
    ELSE IF out = <<>> THEN FALSE
    ELSE IF Carries(Head(out), Head(msgs)) THEN Embedded(Tail(msgs), Tail(out))
    ELSE Embedded(msgs, Tail(out))

\* C31 -- in every successful assembly with a configured structure no
\* conversation turn is dropped: every message of the inbound conversation
\* appears in the output, in its original relative order, whether or not a
\* block holds the history marker and whether or not the structure has an
\* Unparsed Text Injection block.
C31_NoTurnDropped ==
    \A c \in CallIds :
        (Returned(c) /\ ~calls[c].result.error /\ calls[c].structure # <<>>)
        => Embedded(calls[c].incoming, calls[c].result.finalMessages)

\* the number of messages of out equal to m
Occurrences(out, m) == Cardinality({i \in 1..Len(out) : out[i] = m})

\* the texts of the enabled Standard blocks of a structure
StandardTexts(structure) ==
    UNION {TextsIn(structure[i].content) :
              i \in {j \in 1..Len(structure) :
                        structure[j].is_enabled /\ structure[j].block_type = "Standard"}}

\* C32 -- the chat history is injected at most once per assembly: when
\* several emitted contents hold the <<CHAT_HISTORY>> marker, or one content
\* holds it twice, no history message appears twice in the output and no text
\* after a marker is lost.
C32_HistoryOnce ==
    \A c \in CallIds :
        (Returned(c) /\ ~calls[c].result.error /\ calls[c].structure # <<>>)
        => LET out == calls[c].result.finalMessages
               history == Tail(calls[c].incoming)
           IN /\ \A i \in 1..Len(history) : Occurrences(out, history[i]) <= 1
              /\ \A t \in StandardTexts(calls[c].structure) :
                    \E i \in 1..Len(out) : t \in TextsIn(out[i].content)

\* the enabled blocks of a given type in a structure
BlocksOfType(structure, type) ==
    {structure[i] : i \in {j \in 1..Len(structure) :
                             structure[j].is_enabled /\ structure[j].block_type = type}}

\* C33 -- a Conditional Prefill block is emitted if and only if no
\* Prefill-kind command is resolved for the request; when one is resolved the
\* block contributes no message at all.
C33_ConditionalPrefill ==
    \A c \in CallIds :
        (Returned(c) /\ ~calls[c].result.error /\ calls[c].structure # <<>>)
        => \A b \in BlocksOfType(calls[c].structure, "Conditional Prefill") :
              /\ Occurrences(calls[c].result.finalMessages, Msg(b.role, b.content))
                    = IF PrefillCount(ResolvedOf(c)) = 0 THEN 1 ELSE 0
              /\ PrefillCount(ResolvedOf(c)) > 0
                    => \A i \in 1..Len(calls[c].result.finalMessages) :
                          TextsIn(calls[c].result.finalMessages[i].content)
                             \cap TextsIn(b.content) = {}

\* one request resolved <PF1> and got the command without the conditional
\* block; another resolved no Prefill command and got the block
C33_Witness ==
    \E c, d \in CallIds :
        /\ Returned(c) /\ Returned(d)
        /\ calls[c].structure = CommandStructure /\ calls[d].structure = CommandStructure
        /\ calls[c].incoming = IncomingOnePrefill /\ calls[d].incoming = IncomingCommands
        /\ Occurrences(calls[c].result.finalMessages, Msg("assistant", <<Text("pf1")>>)) = 1
        /\ Occurrences(calls[c].result.finalMessages, Msg(BlockCond.role, BlockCond.content)) = 0
        /\ Occurrences(calls[d].result.finalMessages, Msg(BlockCond.role, BlockCond.content)) = 1

CommandKinds == {"Jailbreak", "Additional Commands", "Prefill"}

\* the messages the commands of block b's bucket give, in lookup order
RECURSIVE BucketMessages(_, _)
BucketMessages(b, defs) ==
    IF defs = <<>> THEN <<>>
    ELSE (IF Head(defs).command_type = b.block_type
          THEN <<Msg(IF b.block_type = "Additional Commands" THEN b.role
                     ELSE Head(defs).block_role,
                     Head(defs).block_content)>>
          ELSE <<>>) \o BucketMessages(b, Tail(defs))

\* the messages of the command blocks a structure begins with
RECURSIVE LeadingBuckets(_, _)
LeadingBuckets(structure, defs) ==
    IF structure = <<>> \/ Head(structure).block_type \notin CommandKinds THEN <<>>
    ELSE BucketMessages(Head(structure), defs) \o LeadingBuckets(Tail(structure), defs)

\* C34 -- at a block of kind Jailbreak, Additional Commands or Prefill the
\* block's own content is never emitted; every command of the matching bucket
\* is emitted at that position in lookup order, with the command's own role
\* for Jailbreak and Prefill and with the block's role for Additional Commands.
C34_CommandBlocks ==
    \A c \in CallIds :
        (Returned(c) /\ ~calls[c].result.error /\ calls[c].structure # <<>>)
        => LET out == calls[c].result.finalMessages
               expected == LeadingBuckets(calls[c].structure, ResolvedOf(c))
           IN /\ \A k \in CommandKinds : \A b \in BlocksOfType(calls[c].structure, k) :
                    \A i \in 1..Len(out) :
                       TextsIn(out[i].content) \cap TextsIn(b.content) = {}
              /\ Len(out) >= Len(expected)
              /\ SubSeq(out, 1, Len(expected)) = expected

\* a request that resolved one Jailbreak and two Additional Commands: the
\* Jailbreak under its own role, the two others under the block's role, in
\* the order of the lookup and not of the tags
C34_Witness ==
    \E c \in CallIds :
        /\ Returned(c) /\ calls[c].structure = CommandStructure
        /\ calls[c].incoming = IncomingCommands
        /\ SubSeq(calls[c].result.finalMessages, 1, 3)
              = <<Msg("user", <<Text("jail")>>), Msg("system", <<Text("add")>>),
                  Msg("system", <<Text("add2")>>)>>

\* the timestamps of token t younger than one minute at time now
WindowOf(reqMap, t, now) ==
    SelectSeq(IF t \in DOMAIN reqMap THEN reqMap[t] ELSE <<>>,
              LAMBDA ts : now - ts < 60000)

\* C35 -- a verifyAndRateLimit call that is rejected (invalid, disabled,
\* expired or rate limited) leaves the token map and every token's timestamp
\* window unchanged; only an admitted call adds a timestamp, and it adds
\* exactly one.
C35_RejectedLeavesState ==
    [][/\ (last'.op = "verify" /\ last'.code # 200)
            => tokens' = tokens /\ requests' = requests
       /\ (last'.op = "verify" /\ last'.code = 200)
            => /\ tokens' = tokens
               /\ requests'[last'.p] = Append(WindowOf(requests, last'.p, clock), clock)
               /\ \A u \in DOMAIN requests' \ {last'.p} :
                     u \in DOMAIN requests /\ requests'[u] = requests[u]
       /\ (\E u \in DOMAIN requests' :
              Len(requests'[u]) > (IF u \in DOMAIN requests THEN Len(requests[u]) ELSE 0))
            => last'.op = "verify" /\ last'.code = 200]_vars

\* a rate-limited call has just returned 429 and the full window it met,
\* admissions of an earlier clock value included, is as it was
C35_Witness ==
    /\ last.op = "verify" /\ last.code = 429
    /\ last.p \in DOMAIN requests
    /\ Len(requests[last.p]) = tokens[last.p].rpm
    /\ \E i \in 1..Len(requests[last.p]) : clock - requests[last.p][i] > 0

\* the outcome of a call by t at time now in the run that never sweeps: its
\* lists hold every admission, so its window is the last minute of them
UnsweptOutcome(t, now) ==
    IF t \notin DOMAIN tokens THEN "invalid"
    ELSE IF ~tokens[t].is_enabled THEN "disabled"
    ELSE IF Expired(tokens[t], now) THEN "expired"
    ELSE IF Len(WindowOf(admitted, t, now)) >= tokens[t].rpm THEN "limited"
    ELSE "ok"

\* C36 -- the background sweep is invisible to admission: for every sequence
\* of verifyAndRateLimit calls and clock values, each call returns the same
\* outcome whether or not cleanupRequestTimestamps runs at any points in
\* between.
C36_SweepInvisible ==
    [][last'.op = "verify" => last'.key = UnsweptOutcome(last'.p, clock)]_vars

\* a call is rate limited after a sweep that ran since the admissions it
\* counts, and an earlier admission of the token has aged out and been swept
C36_Witness ==
    /\ last.op = "verify" /\ last.code = 429
    /\ last.p \in DOMAIN admitted /\ last.p \in DOMAIN requests
    /\ Len(requests[last.p]) < Len(admitted[last.p])
    /\ \E i \in 1..Len(admitted[last.p]) : clock - admitted[last.p][i] >= 60000

\* C38 -- in a messages-style stream every upstream content-delta event is
\* forwarded exactly once, in order, however the upstream bytes are split
\* into network chunks, including when a `data:` line is split across two
\* chunks.
C38_DeltasOnceInOrder ==
    ~upstream.cut
    => SelectSeq(response, LAMBDA w : w.data = "chunk" /\ w.finish_reason = "")
          = ForwardedAll(SelectSeq(upstream.sent,
                                   LAMBDA e : e.type = "content_block_delta"))

\* C37 -- when the downstream caller disconnects during a streamed response
\* the proxy stops forwarding chunks and releases the upstream connection:
\* after the disconnect no further write to the response occurs and the
\* upstream stream is eventually closed.
C37_AbandonedCleanly ==
    /\ [][downstream.closed => response' = response]_vars
    /\ downstream.closed ~> upstream.ended

\* C39 -- ThinkTagStreamProcessor is equivalent to filterThinkTags for every
\* chunking: for any text and any split of it into chunks fed to process in
\* order, the concatenation of the returned outputs equals the text with
\* every <think>...</think> span removed, including when an opening or
\* closing tag is split across two chunks. Stated for the texts whose spans
\* are all closed, on which an open span cannot make the two differ.
C39_StreamEqualsFilter ==
    IndexOf(filterThinkTags(processor.fed), OpenTag, 1) = 0
    => processor.output = filterThinkTags(processor.fed)

====
